---- MODULE Spec2Model ----
(***************************************************************************)
(* Model of solution.forms: the validators (validators.py) and the field   *)
(* classes with their factories (fields.py).                               *)
(*                                                                         *)
(* Python values are tagged records [t |-> type, v |-> payload]; a string  *)
(* is a sequence of one-character strings, so that strip(), int(), float() *)
(* and the regular expressions are computed and not assumed.               *)
(***************************************************************************)
EXTENDS Integers, Sequences, FiniteSets, TLC

VARIABLES
    factory,    \* the declared field factory: [kind, args, upload]
    heap,       \* the validator objects: sequence of [cls, a, b, code, message]
    fields,     \* the field instances built by make(), by slot
    calls,      \* validator calls of the last operation: sequence of [ref, arg]
    uploads,    \* upload callback invocations of the last operation
    exc,        \* exception the last operation ended with, or "none"
    last,       \* the last operation: [op, f, arg]
    probe,      \* a validator constructed and called on its own
    out,        \* what the last operation returned, when it was a getter
                \* or a rendering call: [op, arg, val]
    steps       \* number of operations performed

vars == <<factory, heap, fields, calls, uploads, exc, last, probe, out, steps>>

\* Longest run of operations explored.
MaxSteps == 5

-----------------------------------------------------------------------------
(* Python values *)

None == [t |-> "none"]
PyStr(s) == [t |-> "str", v |-> s]
PyFloat(n) == [t |-> "float", v |-> n]
PyInt(n) == [t |-> "int", v |-> n]
PyBool(b) == [t |-> "bool", v |-> b]
PyList(l) == [t |-> "list", v |-> l]
PyDate(d) == [t |-> "date", v |-> d]
PyDateTime(d, s) == [t |-> "datetime", v |-> <<d, s>>]

\* An attribute that was never assigned (reading it raises AttributeError).
NoAttr == "<unset>"

IsNone(x) == x.t = "none"
IsStr(x) == x.t = "str"
IsNum(x) == x.t \in {"float", "int"}
\* isinstance(x, datetime.date): datetime.datetime is a subclass of date
IsDateInstance(x) == x.t \in {"date", "datetime"}

\* x == y (a float and an int with the same value are equal)
PyEq(x, y) == IF IsNum(x) /\ IsNum(y) THEN x.v = y.v ELSE x.t = y.t /\ x = y

\* bool(x)
Truthy(x) ==
    CASE x.t = "none" -> FALSE
      [] x.t = "str" -> Len(x.v) > 0
      [] x.t = "float" -> x.v # 0
      [] x.t = "int" -> x.v # 0
      [] x.t = "bool" -> x.v
      [] x.t = "list" -> Len(x.v) > 0
      [] x.t = "dict" -> Len(x.v) > 0
      [] OTHER -> TRUE

\* x or y
PyOr(x, y) == IF Truthy(x) THEN x ELSE y

-----------------------------------------------------------------------------
(* Strings *)

Digits == <<"0", "1", "2", "3", "4", "5", "6", "7", "8", "9">>
Lower == {"a", "b", "c", "d", "e", "f", "g", "h", "i", "j", "k", "l", "m",
          "n", "o", "p", "q", "r", "s", "t", "u", "v", "w", "x", "y", "z"}
Upper == {"A", "B", "C", "D", "E", "F", "G", "H", "I", "J", "K", "L", "M",
          "N", "O", "P", "Q", "R", "S", "T", "U", "V", "W", "X", "Y", "Z"}
Letters == Lower \cup Upper
IsDigit(c) == \E i \in 1..10 : Digits[i] = c
DigitVal(c) == (CHOOSE i \in 1..10 : Digits[i] = c) - 1
IsSpace(c) == c = " "

RECURSIVE LStrip(_)
LStrip(s) == IF Len(s) > 0 /\ IsSpace(Head(s)) THEN LStrip(Tail(s)) ELSE s

RECURSIVE RStrip(_)
RStrip(s) ==
    IF Len(s) > 0 /\ IsSpace(s[Len(s)])
    THEN RStrip(SubSeq(s, 1, Len(s) - 1)) ELSE s

\* basestring.strip()
Strip(s) == RStrip(LStrip(s))

AllDigits(s) == \A i \in 1..Len(s) : IsDigit(s[i])
AllLetters(s) == \A i \in 1..Len(s) : s[i] \in Letters

RECURSIVE DecVal(_)
DecVal(s) == IF Len(s) = 0 THEN 0
             ELSE 10 * DecVal(SubSeq(s, 1, Len(s) - 1)) + DigitVal(s[Len(s)])

\* int(s, 10): surrounding whitespace and one sign are accepted.
ParseInt(s) ==
    LET u == Strip(s)
        neg == Len(u) > 0 /\ u[1] = "-"
        body == IF Len(u) > 0 /\ u[1] \in {"-", "+"} THEN Tail(u) ELSE u
    IN  IF Len(body) > 0 /\ AllDigits(body)
        THEN [ok |-> TRUE, n |-> IF neg THEN 0 - DecVal(body) ELSE DecVal(body)]
        ELSE [ok |-> FALSE, n |-> 0]

\* float(s) on the numerals of the model: a signed run of digits.  (Fractions
\* and exponents are not among the inputs; any other character fails.)
ParseFloat(s) == ParseInt(s)

RECURSIVE DecStr(_)
DecStr(n) == IF n < 10 THEN <<Digits[n + 1]>>
             ELSE DecStr(n \div 10) \o <<Digits[(n % 10) + 1]>>

IntStr(n) == IF n < 0 THEN <<"-">> \o DecStr(0 - n) ELSE DecStr(n)

RECURSIVE ReprList(_)
RECURSIVE StrOf(_)
\* str(x): Python 2 str() of the values a field can hold
StrOf(x) ==
    CASE x.t = "none" -> <<"N", "o", "n", "e">>
      [] x.t = "str" -> x.v
      [] x.t = "int" -> IntStr(x.v)
      [] x.t = "float" -> IntStr(x.v) \o <<".", "0">>
      [] x.t = "bool" -> IF x.v THEN <<"T", "r", "u", "e">>
                                ELSE <<"F", "a", "l", "s", "e">>
      [] x.t = "list" -> <<"[">> \o ReprList(x.v) \o <<"]">>
      [] OTHER -> <<"<", x.t, ">">>     \* an object: its repr, one token here

ReprList(l) ==
    IF Len(l) = 0 THEN <<>>
    ELSE LET r == IF Head(l).t = "str"
                  THEN <<"u", "'">> \o Head(l).v \o <<"'">>
                  ELSE StrOf(Head(l))
         IN  r \o (IF Len(l) > 1 THEN <<",", " ">> ELSE <<>>) \o ReprList(Tail(l))

\* s.split(c)
RECURSIVE Split(_, _)
Split(s, c) ==
    IF \A i \in 1..Len(s) : s[i] # c THEN <<s>>
    ELSE LET k == CHOOSE i \in 1..Len(s) :
                      s[i] = c /\ \A j \in 1..(i - 1) : s[j] # c
         IN  <<SubSeq(s, 1, k - 1)>> \o Split(SubSeq(s, k + 1, Len(s)), c)

-----------------------------------------------------------------------------
(* Regular expressions of validators.py, all compiled with re.IGNORECASE *)

IsAlnum(c) == IsDigit(c) \/ c \in Letters
IsHex(c) == IsDigit(c) \/ c \in {"a", "b", "c", "d", "e", "f",
                                 "A", "B", "C", "D", "E", "F"}

\* IsColor.regex  #[0-9a-f]{6,8}  (re.match: anchored at the start only)
ReColor(s) == Len(s) >= 7 /\ s[1] = "#" /\ \A i \in 2..7 : IsHex(s[i])

\* the pattern [0-9]+ given to Match, anchored at the start only
ReDigits(s) == Len(s) >= 1 /\ IsDigit(s[1])

\* ValidURL._url_re, by its groups:
\*   ^([a-z]{3,7}:(//)?)?([^/:]+TLD|([0-9]{1,3}\.){3}[0-9]{1,3})(:[0-9]+)?(\/.*)?$
ReUrlScheme(s) ==
    \/ Len(s) = 0
    \/ \E n \in 3..7 :
         /\ Len(s) \in {n + 1, n + 3}
         /\ AllLetters(SubSeq(s, 1, n))
         /\ s[n + 1] = ":"
         /\ Len(s) = n + 3 => (s[n + 2] = "/" /\ s[n + 3] = "/")

ReUrlHostName(s, require_tld) ==
    IF require_tld
    THEN \E n \in 2..10 :
           /\ Len(s) >= n + 2
           /\ s[Len(s) - n] = "."
           /\ AllLetters(SubSeq(s, Len(s) - n + 1, Len(s)))
           /\ \A i \in 1..(Len(s) - n - 1) : s[i] \notin {"/", ":"}
    ELSE Len(s) >= 1 /\ \A i \in 1..Len(s) : s[i] \notin {"/", ":"}

ReUrlIp(s) ==
    LET p == Split(s, ".")
    IN  Len(p) = 4 /\ \A i \in 1..4 : Len(p[i]) \in 1..3 /\ AllDigits(p[i])

ReUrlPort(s) ==
    Len(s) = 0 \/ (Len(s) >= 2 /\ s[1] = ":" /\ AllDigits(Tail(s)))

ReUrlPath(s) == Len(s) = 0 \/ s[1] = "/"

ReUrl(s, require_tld) ==
    \E i \in 0..Len(s) : \E j \in i..Len(s) : \E k \in j..Len(s) :
        /\ ReUrlScheme(SubSeq(s, 1, i))
        /\ \/ ReUrlHostName(SubSeq(s, i + 1, j), require_tld)
           \/ ReUrlIp(SubSeq(s, i + 1, j))
        /\ ReUrlPort(SubSeq(s, j + 1, k))
        /\ ReUrlPath(SubSeq(s, k + 1, Len(s)))

\* ValidEmail._email_re:  (^dot-atom|^"quoted-string")@(?:label\.)+[A-Z]{2,6}\.?$
\* The quoted-string alternative needs a double quote, which no input has;
\* the backquote of the dot-atom class cannot be written in a string here.
IsAtomChar(c) ==
    IsAlnum(c) \/ c \in {"-", "!", "#", "$", "%", "&", "'", "*", "+", "/",
                         "=", "?", "^", "_", "{", "}", "|", "~"}

ReEmailLocal(s) ==
    LET p == Split(s, ".")
    IN  \A i \in 1..Len(p) :
            Len(p[i]) >= 1 /\ \A j \in 1..Len(p[i]) : IsAtomChar(p[i][j])

ReEmailLabel(s) ==
    /\ Len(s) \in 1..63
    /\ IsAlnum(s[1]) /\ IsAlnum(s[Len(s)])
    /\ \A j \in 1..Len(s) : IsAlnum(s[j]) \/ s[j] = "-"

ReEmailDomain(s) ==
    LET d == IF Len(s) > 0 /\ s[Len(s)] = "." THEN SubSeq(s, 1, Len(s) - 1)
             ELSE s
        p == Split(d, ".")
    IN  /\ Len(p) >= 2
        /\ Len(p[Len(p)]) \in 2..6 /\ AllLetters(p[Len(p)])
        /\ \A i \in 1..(Len(p) - 1) : ReEmailLabel(p[i])

ReEmail(s) ==
    \E i \in 1..Len(s) :
        /\ s[i] = "@"
        /\ ReEmailLocal(SubSeq(s, 1, i - 1))
        /\ ReEmailDomain(SubSeq(s, i + 1, Len(s)))

-----------------------------------------------------------------------------
(* Validators: construction.  An object is [cls, a, b, code, message]; a and *)
(* b are the constructor's parameters, code and message what reading the     *)
(* attribute finds (instance first, then the class and its bases).           *)

ValidatorClasses ==
    {"Required", "IsNumber", "IsNaturalNumber", "IsDate", "LongerThan",
     "ShorterThan", "LessThan", "MoreThan", "InRange", "Match", "IsColor",
     "ValidEmail", "ValidURL", "Before", "After", "BeforeNow", "AfterNow",
     "AreEqual"}

\* class B(A): the direct base of a validator class
BaseOf(cls) ==
    CASE cls = "IsColor" -> "Match"
      [] cls = "BeforeNow" -> "Before"
      [] cls = "AfterNow" -> "After"
      [] cls = "AreEqual" -> "FormValidator"
      [] OTHER -> "object"

\* issubclass(cls, target)
IsSubclass(cls, target) == cls = target \/ BaseOf(cls) = target

\* the class attribute `code`, looked up through the bases
ClassCode(cls) ==
    CASE cls = "Required" -> "required"
      [] cls \in {"IsNumber", "IsNaturalNumber", "IsDate"} -> "invalid"
      [] cls = "LongerThan" -> "too_short"
      [] cls = "ShorterThan" -> "too_long"
      [] cls = "LessThan" -> "too_big"
      [] cls = "MoreThan" -> "too_small"
      [] cls = "InRange" -> NoAttr
      [] cls \in {"Match", "IsColor"} -> "invalid"
      [] cls = "ValidEmail" -> "invalid_email"
      [] cls = "ValidURL" -> "invalid_url"
      [] cls \in {"Before", "BeforeNow"} -> "too_late"
      [] cls \in {"After", "AfterNow"} -> "too_soon"
      [] cls = "AreEqual" -> "not_equal"
      [] OTHER -> NoAttr

Obj(cls, a, b, message) ==
    [cls |-> cls, a |-> a, b |-> b, code |-> ClassCode(cls), message |-> message]

Made(obj) == [exc |-> "none", obj |-> obj]
Failed(e) == [exc |-> e, obj |-> Obj("object", None, None, NoAttr)]

Required_init == Made(Obj("Required", None, None, "This field is required."))

IsNumber_init == Made(Obj("IsNumber", None, None, "Enter a number."))

IsNaturalNumber_init ==
    Made(Obj("IsNaturalNumber", None, None, "Enter a positive integer number."))

IsDate_init == Made(Obj("IsDate", None, None, "Enter a valid date."))

LongerThan_init(length) ==
    IF length.t # "int" THEN Failed("AssertionError")
    ELSE Made(Obj("LongerThan", length, None,
                  "Field must be at least %d character long."))

ShorterThan_init(length) ==
    IF length.t # "int" THEN Failed("AssertionError")
    ELSE Made(Obj("ShorterThan", length, None,
                  "Field cannot be longer than %d character."))

LessThan_init(value) ==
    IF ~IsNum(value) THEN Failed("TypeError")       \* '%d' % value
    ELSE Made(Obj("LessThan", value, None, "Number must be less than %d."))

MoreThan_init(value) ==
    Made(Obj("MoreThan", value, None, "Number must be greater than %s."))

InRange_init(minval, maxval) ==
    Made(Obj("InRange", minval, maxval, "Number must be between %s and %s."))

Match_init(regex) ==
    Made(Obj("Match", regex, None, "This value doesn't seem to be valid."))

IsColor_init == Made(Obj("IsColor", None, None, "Enter a valid color."))

ValidEmail_init ==
    Made(Obj("ValidEmail", None, None, "Enter a valid e-mail address."))

\* the default message is computed but never stored on the instance
ValidURL_init(require_tld) ==
    Made(Obj("ValidURL", require_tld, None, NoAttr))

\* datetime.datetime(date.year, date.month. date.day): `date.month. date.day`
\* reads the attribute `date` of an int
Before_init(date) ==
    IF ~IsDateInstance(date) THEN Failed("AssertionError")
    ELSE IF date.t # "datetime" THEN Failed("AttributeError")
    ELSE Made(Obj("Before", date, None, "Enter a valid date before %s."))

After_init(date) ==
    IF ~IsDateInstance(date) THEN Failed("AssertionError")
    ELSE IF date.t # "datetime" THEN Failed("AttributeError")
    ELSE Made(Obj("After", date, None, "Enter a valid date after %s."))

BeforeNow_init ==
    Made(Obj("BeforeNow", None, None, "Enter a valid date in the past."))

AfterNow_init ==
    Made(Obj("AfterNow", None, None, "Enter a valid date in the future."))

AreEqual_init(name1, name2) ==
    Made(Obj("AreEqual", name1, name2, "The %s doesn't match."))

\* cls(a, b) with the default message
VNew(cls, a, b) ==
    CASE cls = "Required" -> Required_init
      [] cls = "IsNumber" -> IsNumber_init
      [] cls = "IsNaturalNumber" -> IsNaturalNumber_init
      [] cls = "IsDate" -> IsDate_init
      [] cls = "LongerThan" -> LongerThan_init(a)
      [] cls = "ShorterThan" -> ShorterThan_init(a)
      [] cls = "LessThan" -> LessThan_init(a)
      [] cls = "MoreThan" -> MoreThan_init(a)
      [] cls = "InRange" -> InRange_init(a, b)
      [] cls = "Match" -> Match_init(a)
      [] cls = "IsColor" -> IsColor_init
      [] cls = "ValidEmail" -> ValidEmail_init
      [] cls = "ValidURL" -> ValidURL_init(a)
      [] cls = "Before" -> Before_init(a)
      [] cls = "After" -> After_init(a)
      [] cls = "BeforeNow" -> BeforeNow_init
      [] cls = "AfterNow" -> AfterNow_init
      [] cls = "AreEqual" -> AreEqual_init(a, b)

-----------------------------------------------------------------------------
(* Validators: __call__.  The result is [exc, ok, obj]: the exception raised *)
(* ("none" when it returns), the truth of the returned value and the object  *)
(* after the call.                                                            *)

Ret(ok, obj) == [exc |-> "none", ok |-> ok, obj |-> obj]
Raise(e, obj) == [exc |-> e, ok |-> FALSE, obj |-> obj]

\* Python 2 ordering of a value against a number: numbers (and bools) compare
\* by value, a date refuses the comparison, any other object is greater.
CmpNum(x, n) ==
    CASE IsNum(x) -> IF x.v < n THEN "lt" ELSE IF x.v > n THEN "gt" ELSE "eq"
      [] x.t = "bool" -> LET i == IF x.v THEN 1 ELSE 0
                         IN  IF i < n THEN "lt" ELSE IF i > n THEN "gt" ELSE "eq"
      [] IsDateInstance(x) -> "TypeError"
      [] x.t = "none" -> "lt"
      [] OTHER -> "gt"

\* d1 <= d2 on datetimes <<day, second>>
DateTimeLe(d1, d2) == d1[1] < d2[1] \/ (d1[1] = d2[1] /\ d1[2] <= d2[2])

Required_call(self, python_value) == Ret(Truthy(python_value), self)

\* float(python_value) does not raise
IsNumber_call(self, python_value) ==
    Ret(CASE IsStr(python_value) -> ParseFloat(python_value.v).ok
          [] IsNum(python_value) \/ python_value.t = "bool" -> TRUE
          [] OTHER -> FALSE, self)

IsNaturalNumber_call(self, python_value) ==
    LET r == ParseInt(StrOf(python_value))
    IN  Ret(r.ok /\ r.n >= 0, self)

IsDate_call(self, python_value) == Ret(IsDateInstance(python_value), self)

LongerThan_call(self, python_value) ==
    Ret(Len(StrOf(PyOr(python_value, PyStr(<<>>)))) >= self.a.v, self)

ShorterThan_call(self, python_value) ==
    Ret(Len(StrOf(PyOr(python_value, PyStr(<<>>)))) <= self.a.v, self)

LessThan_call(self, python_value) ==
    LET value == PyOr(python_value, PyInt(0))
        c == CmpNum(value, self.a.v)
    IN  IF c = "TypeError" THEN Raise("TypeError", self)
        ELSE Ret(c \in {"lt", "eq"}, self)

MoreThan_call(self, python_value) ==
    LET value == PyOr(python_value, PyInt(0))
        c == CmpNum(value, self.a.v)
    IN  IF c = "TypeError" THEN Raise("TypeError", self)
        ELSE Ret(c \in {"gt", "eq"}, self)

\* InRange.__call__ assigning the code only while the instance has none
InRange_call_FirstCodeOnly(self, python_value) ==
    LET value == PyOr(python_value, PyInt(0))
        lo == CmpNum(value, self.a.v)
        hi == CmpNum(value, self.b.v)
        keep(c) == IF self.code = NoAttr THEN c ELSE self.code
    IN  IF lo = "TypeError" THEN Raise("TypeError", self)
        ELSE IF lo = "lt" THEN Ret(FALSE, [self EXCEPT !.code = keep("too_small")])
        ELSE IF hi = "gt" THEN Ret(FALSE, [self EXCEPT !.code = keep("too_big")])
        ELSE Ret(TRUE, self)

InRange_call(self, python_value) ==
    LET value == PyOr(python_value, PyInt(0))
        lo == CmpNum(value, self.a.v)
        hi == CmpNum(value, self.b.v)
    IN  IF lo = "TypeError" THEN Raise("TypeError", self)
        ELSE IF lo = "lt" THEN Ret(FALSE, [self EXCEPT !.code = "too_small"])
        ELSE IF hi = "gt" THEN Ret(FALSE, [self EXCEPT !.code = "too_big"])
        ELSE Ret(TRUE, self)

\* self.regex.match(python_value or u''): the regex is named by its source
Match_call(self, python_value) ==
    LET value == PyOr(python_value, PyStr(<<>>))
    IN  IF ~IsStr(value) THEN Raise("TypeError", self)
        ELSE Ret(IF self.cls = "IsColor" THEN ReColor(value.v)
                 ELSE ReDigits(value.v), self)

\* The IDN retry encodes the domain and matches again; on the ASCII inputs
\* of the model the encoded text is the text itself (or the encoding fails),
\* so the retry returns what the first match returned.
ValidEmail_call(self, python_value) ==
    LET value == PyOr(python_value, PyStr(<<>>))
    IN  IF ~IsStr(value) THEN Raise("TypeError", self)
        ELSE Ret(ReEmail(value.v), self)

ValidURL_call(self, python_value) ==
    LET value == PyOr(python_value, PyStr(<<>>))
    IN  IF ~IsStr(value) THEN Raise("TypeError", self)
        ELSE Ret(ReUrl(value.v, self.a.v), self)

\* `value.month. value.day` reads the attribute `value` of an int
Before_call(self, python_value) ==
    IF ~IsDateInstance(python_value) THEN Ret(FALSE, self)
    ELSE IF python_value.t # "datetime" THEN Raise("AttributeError", self)
    ELSE Ret(DateTimeLe(python_value.v, self.a.v), self)

After_call(self, python_value) ==
    IF ~IsDateInstance(python_value) THEN Ret(FALSE, self)
    ELSE IF python_value.t # "datetime" THEN Raise("AttributeError", self)
    ELSE Ret(DateTimeLe(self.a.v, python_value.v), self)

\* self.date = datetime.datetime.utcnow(), then Before.__call__
BeforeNow_call(self, python_value, now) ==
    Before_call([self EXCEPT !.a = now], python_value)

AfterNow_call(self, python_value, now) ==
    After_call([self EXCEPT !.a = now], python_value)

\* data.get(name): data is a dict, here a sequence of <<key, value>> pairs
DictGet(data, name) ==
    IF \E i \in 1..Len(data.v) : data.v[i][1] = name
    THEN data.v[CHOOSE i \in 1..Len(data.v) : data.v[i][1] = name][2]
    ELSE None

AreEqual_call(self, data) ==
    Ret(PyEq(DictGet(data, self.a), DictGet(data, self.b)), self)

\* val(x); `now` is what datetime.datetime.utcnow() returns during the call
VCall(self, x, now) ==
    CASE self.cls = "Required" -> Required_call(self, x)
      [] self.cls = "IsNumber" -> IsNumber_call(self, x)
      [] self.cls = "IsNaturalNumber" -> IsNaturalNumber_call(self, x)
      [] self.cls = "IsDate" -> IsDate_call(self, x)
      [] self.cls = "LongerThan" -> LongerThan_call(self, x)
      [] self.cls = "ShorterThan" -> ShorterThan_call(self, x)
      [] self.cls = "LessThan" -> LessThan_call(self, x)
      [] self.cls = "MoreThan" -> MoreThan_call(self, x)
      [] self.cls = "InRange" -> InRange_call(self, x)
      [] self.cls \in {"Match", "IsColor"} -> Match_call(self, x)
      [] self.cls = "ValidEmail" -> ValidEmail_call(self, x)
      [] self.cls = "ValidURL" -> ValidURL_call(self, x)
      [] self.cls = "Before" -> Before_call(self, x)
      [] self.cls = "After" -> After_call(self, x)
      [] self.cls = "BeforeNow" -> BeforeNow_call(self, x, now)
      [] self.cls = "AfterNow" -> AfterNow_call(self, x, now)
      [] self.cls = "AreEqual" -> AreEqual_call(self, x)

-----------------------------------------------------------------------------
(* Fields *)

FieldKinds ==
    {"Text", "Password", "Number", "NaturalNumber", "Email", "URL", "Date",
     "DateTime", "Color", "File", "Boolean", "Select", "SelectMulti",
     "Collection"}

\* the classes whose __init__ is _Text.__init__
TextKinds ==
    {"Text", "Password", "Number", "NaturalNumber", "Email", "URL", "Date",
     "DateTime", "Color", "Collection"}

\* _default_validator of the class ("" for None)
DefaultValidator(kind) ==
    CASE kind = "Number" -> "IsNumber"
      [] kind = "NaturalNumber" -> "IsNaturalNumber"
      [] kind = "Email" -> "ValidEmail"
      [] kind = "URL" -> "ValidURL"
      [] kind \in {"Date", "DateTime"} -> "IsDate"
      [] kind = "Color" -> "IsColor"
      [] OTHER -> ""

ValidationError(code, message) ==
    [t |-> "err", code |-> code, message |-> message]

IsValidationError(x) == x.t = "err"

NoField == [kind |-> "none"]

\* _Field._set_value without the strip()
Field_set_value_NoStrip(value) ==
    IF value.t = "list"
    THEN (IF Len(value.v) > 0 THEN value.v[1] ELSE PyStr(<<>>))
    ELSE IF IsNone(value) THEN PyStr(<<>>)
    ELSE value

\* _Field._set_value
Field_set_value(value) ==
    LET v1 == IF value.t = "list"
              THEN (IF Len(value.v) > 0 THEN value.v[1] ELSE PyStr(<<>>))
              ELSE IF IsNone(value) THEN PyStr(<<>>)
              ELSE value
    IN  IF IsStr(v1) THEN PyStr(Strip(v1.v)) ELSE v1

\* _SelectMulti._set_value
SelectMulti_set_value(value) ==
    IF value.t # "list" THEN PyList(<<value>>) ELSE value

\* _Collection._set_value: list(value); [exc, val]
Collection_set_value(value) ==
    CASE value.t = "list" -> [exc |-> "none", val |-> value]
      [] value.t = "str" ->
            [exc |-> "none",
             val |-> PyList([i \in 1..Len(value.v) |-> PyStr(<<value.v[i]>>)])]
      [] OTHER -> [exc |-> "TypeError", val |-> value]

\* the `value` setter of the field's class; [exc, val]
SetValue(kind, value) ==
    CASE kind = "SelectMulti" ->
            [exc |-> "none", val |-> SelectMulti_set_value(value)]
      [] kind = "Collection" -> Collection_set_value(value)
      [] OTHER -> [exc |-> "none", val |-> Field_set_value(value)]

\* an injected `clean` function: "int" is int(value), which raises on
\* anything but a numeral; "" is no function
CleanFn(fn, value) ==
    IF fn = "int" /\ IsStr(value) /\ ParseInt(value.v).ok
    THEN [exc |-> "none", val |-> PyInt(ParseInt(value.v).n)]
    ELSE [exc |-> "ValueError", val |-> None]

\* an injected `upload` function: "store" returns a stored name, "fail"
\* raises an exception e; msg is str(e)
UploadFn(fn, value) ==
    IF fn = "fail" THEN [exc |-> "IOError", msg |-> "disk full", val |-> None]
    ELSE [exc |-> "none", msg |-> "", val |-> PyStr(<<"u", "p">>)]

\* the result of to_python(): [exc, val, uploads]
Py(val) == [exc |-> "none", val |-> val, uploads |-> 0]
PyRaise(e) == [exc |-> e, val |-> None, uploads |-> 0]

\* _Field.to_python
Field_to_python(self) ==
    IF ~Truthy(self.value) THEN Py(None) ELSE Py(self.value)

\* _Number.to_python: float(self._value), None on any exception
Number_to_python(self) ==
    IF IsStr(self.value) /\ ParseFloat(self.value.v).ok
    THEN Py(PyFloat(ParseFloat(self.value.v).n))
    ELSE IF IsNum(self.value) THEN Py(PyFloat(self.value.v))
    ELSE Py(None)

\* _NaturalNumber.to_python returning None for a negative integer
NaturalNumber_to_python_NullNegative(self) ==
    LET r == ParseInt(StrOf(self.value))
    IN  IF r.ok /\ r.n >= 0 THEN Py(PyInt(r.n)) ELSE Py(None)

\* _NaturalNumber.to_python: int(str(self._value), 10), None on any exception
NaturalNumber_to_python(self) ==
    LET r == ParseInt(StrOf(self.value))
    IN  IF r.ok THEN Py(PyInt(r.n)) ELSE Py(None)

\* _Date.to_python and _DateTime.to_python are declared as
\* `def to_python(locale=None)`: the instance arrives as `locale` and the
\* first statement reads the undefined global `self`
Date_to_python(self) == PyRaise("NameError")

DateTime_to_python(self) == PyRaise("NameError")

\* _Color.to_python is declared as `def to_python()`: calling it on an
\* instance passes one argument to a function that takes none
Color_to_python(self) == PyRaise("TypeError")

\* _Boolean.to_python is declared as `def to_python(self, value)` and
\* validate() calls it without `value`
Boolean_to_python(self) == PyRaise("TypeError")

\* _File.to_python without the try/except around the upload
File_to_python_NoCatch(self) ==
    IF ~Truthy(self.value) THEN Py(self.original_value)
    ELSE IF self.upload = "" THEN Py(self.value)
    ELSE LET r == UploadFn(self.upload, self.value)
         IN  [exc |-> r.exc, val |-> r.val, uploads |-> 1]

\* _File.to_python
File_to_python(self) ==
    IF ~Truthy(self.value) THEN Py(self.original_value)
    ELSE IF self.upload = "" THEN Py(self.value)
    ELSE LET r == UploadFn(self.upload, self.value)
         IN  IF r.exc = "none"
             THEN [exc |-> "none", val |-> r.val, uploads |-> 1]
             ELSE [exc |-> "none", uploads |-> 1,
                   val |-> ValidationError("invalid_file", r.msg)]

\* _Select.to_python
Select_to_python(self) ==
    IF self.clean # ""
    THEN LET r == CleanFn(self.clean, self.value)
         IN  IF r.exc = "none" THEN Py(r.val) ELSE Py(None)
    ELSE Py(self.value)

\* the per-item cleaning of _SelectMulti.to_python and
\* _Collection.clean_value: items whose cleaning raises are dropped
RECURSIVE CleanEach(_, _)
CleanEach(fn, values) ==
    IF Len(values) = 0 THEN <<>>
    ELSE LET r == CleanFn(fn, Head(values))
         IN  (IF r.exc = "none" THEN <<r.val>> ELSE <<>>)
             \o CleanEach(fn, Tail(values))

\* _SelectMulti.to_python (self._value is None until a value is assigned)
SelectMulti_to_python(self) ==
    IF self.clean # ""
    THEN (IF self.value.t = "list"
          THEN Py(PyList(CleanEach(self.clean, self.value.v)))
          ELSE PyRaise("TypeError"))
    ELSE Py(self.value)

to_python(self) ==
    CASE self.kind = "Number" -> Number_to_python(self)
      [] self.kind = "NaturalNumber" -> NaturalNumber_to_python(self)
      [] self.kind = "Date" -> Date_to_python(self)
      [] self.kind = "DateTime" -> DateTime_to_python(self)
      [] self.kind = "Color" -> Color_to_python(self)
      [] self.kind = "File" -> File_to_python(self)
      [] self.kind = "Boolean" -> Boolean_to_python(self)
      [] self.kind = "Select" -> Select_to_python(self)
      [] self.kind = "SelectMulti" -> SelectMulti_to_python(self)
      [] OTHER -> Field_to_python(self)

\* filter(f, values) for one validator f of `filters`: [exc, vals, heap]
RECURSIVE FilterEach(_, _, _, _)
FilterEach(ref, values, hp, now) ==
    IF Len(values) = 0 THEN [exc |-> "none", vals |-> <<>>, heap |-> hp]
    ELSE LET r == VCall(hp[ref], Head(values), now)
             hp1 == [hp EXCEPT ![ref] = r.obj]
         IN  IF r.exc # "none"
             THEN [exc |-> r.exc, vals |-> <<>>, heap |-> hp1]
             ELSE LET rest == FilterEach(ref, Tail(values), hp1, now)
                  IN  [rest EXCEPT !.vals =
                           (IF r.ok THEN <<Head(values)>> ELSE <<>>) \o @]

RECURSIVE ApplyFilters(_, _, _, _)
ApplyFilters(refs, values, hp, now) ==
    IF Len(refs) = 0 THEN [exc |-> "none", vals |-> values, heap |-> hp]
    ELSE LET r == FilterEach(Head(refs), values, hp, now)
         IN  IF r.exc # "none" THEN r
             ELSE ApplyFilters(Tail(refs), r.vals, r.heap, now)

\* _Collection.clean_value after the filters ran with outcome f:
\* `if self.clean: values = map(self.clean, values)` with failures dropped
Collection_filtered(self, f) ==
    IF f.exc # "none"
    THEN [exc |-> f.exc, val |-> None, heap |-> f.heap]
    ELSE [exc |-> "none", heap |-> f.heap,
          val |-> PyList(IF self.clean # ""
                         THEN CleanEach(self.clean, f.vals)
                         ELSE f.vals)]

\* _Collection.clean_value: [exc, val, heap].  The pattern built from `sep`
\* is assigned to a local and never used.  A stored value that is not a list
\* is a number here, and iterating a number raises.
Collection_clean_value(self, python_value, hp, now) ==
    IF PyOr(python_value, PyList(<<>>)).t # "list"
    THEN (IF Len(self.filters) = 0 /\ self.clean = ""
          THEN [exc |-> "none", val |-> PyOr(python_value, PyList(<<>>)),
                heap |-> hp]
          ELSE [exc |-> "TypeError", val |-> None, heap |-> hp])
    ELSE Collection_filtered(self,
             ApplyFilters(self.filters,
                          PyOr(python_value, PyList(<<>>)).v, hp, now))

\* clean_value of the field's class (_Field.clean_value is the identity)
clean_value(self, python_value, hp, now) ==
    IF self.kind = "Collection"
    THEN Collection_clean_value(self, python_value, hp, now)
    ELSE [exc |-> "none", val |-> python_value, heap |-> hp]

IsFormValidator(obj) == IsSubclass(obj.cls, "FormValidator")

\* The loop of _validate_value (form = FALSE) and of _validate_form
\* (form = TRUE) from position i: [exc, error, heap, calls].  error is None
\* when the loop assigns no error.
RECURSIVE RunValidators(_, _, _, _, _, _, _)
RunValidators(refs, i, form, x, hp, log, now) ==
    IF i > Len(refs)
    THEN [exc |-> "none", error |-> None, heap |-> hp, calls |-> log]
    ELSE IF IsFormValidator(hp[refs[i]]) # form
    THEN RunValidators(refs, i + 1, form, x, hp, log, now)
    ELSE LET r == VCall(hp[refs[i]], x, now)
             hp1 == [hp EXCEPT ![refs[i]] = r.obj]
             log1 == Append(log, [ref |-> refs[i], arg |-> x])
         IN  IF r.exc # "none"
             THEN [exc |-> r.exc, error |-> None, heap |-> hp1, calls |-> log1]
             ELSE IF r.ok
             THEN RunValidators(refs, i + 1, form, x, hp1, log1, now)
             ELSE IF r.obj.code = NoAttr \/ r.obj.message = NoAttr
             THEN [exc |-> "AttributeError", error |-> None, heap |-> hp1,
                   calls |-> log1]
             ELSE [exc |-> "none", heap |-> hp1, calls |-> log1,
                   error |-> ValidationError(r.obj.code, r.obj.message)]

\* _Field._validate_value
validate_value(self, python_value, hp, now) ==
    RunValidators(self.validators, 1, FALSE, python_value, hp, <<>>, now)

\* _validate_form with the isinstance test of _validate_value
validate_form_ValueTest(self, cleaned_data, hp, now) ==
    RunValidators(self.validators, 1, FALSE, cleaned_data, hp, <<>>, now)

\* _Field._validate_form
validate_form(self, cleaned_data, hp, now) ==
    RunValidators(self.validators, 1, TRUE, cleaned_data, hp, <<>>, now)

\* validate(), the last statement: `return self._validate_value(python_value)`
\* with the outcome vv of the chain over the value pv, which is returned
\* when no validator rejects it; [exc, self, heap, calls, uploads, ret]
validate_checked(s1, vv, n, pv) ==
    [exc |-> vv.exc, heap |-> vv.heap, calls |-> vv.calls,
     uploads |-> n,
     ret |-> IF vv.exc = "none" /\ IsNone(vv.error) THEN pv ELSE None,
     self |-> IF IsNone(vv.error) THEN s1
              ELSE [s1 EXCEPT !.error = vv.error]]

\* validate_cleaned without the "do not validate optional fields" return
validate_cleaned_NoOptionalSkip(s0, tp, cv, now) ==
    LET s1 == [s0 EXCEPT !.has_changed = ~PyEq(cv.val, s0.original_value)]
    IN  IF cv.exc # "none"
        THEN [exc |-> cv.exc, self |-> s0, heap |-> cv.heap, calls |-> <<>>,
              uploads |-> tp.uploads, ret |-> None]
        ELSE IF IsValidationError(cv.val)
        THEN [exc |-> "none", self |-> [s0 EXCEPT !.error = cv.val],
              heap |-> cv.heap, calls |-> <<>>, uploads |-> tp.uploads,
              ret |-> None]
        ELSE validate_checked(s1, validate_value(s1, cv.val, cv.heap, now),
                              tp.uploads, cv.val)

\* validate() once clean_value has returned cv: the ValidationError test,
\* has_changed, the return for optional fields and the validator chain
validate_cleaned(s0, tp, cv, now) ==
    LET s1 == [s0 EXCEPT !.has_changed = ~PyEq(cv.val, s0.original_value)]
    IN  IF cv.exc # "none"
        THEN [exc |-> cv.exc, self |-> s0, heap |-> cv.heap, calls |-> <<>>,
              uploads |-> tp.uploads, ret |-> None]
        ELSE IF IsValidationError(cv.val)
        THEN [exc |-> "none", self |-> [s0 EXCEPT !.error = cv.val],
              heap |-> cv.heap, calls |-> <<>>, uploads |-> tp.uploads,
              ret |-> None]
        ELSE IF IsNone(cv.val) /\ s1.optional
        THEN [exc |-> "none", self |-> s1, heap |-> cv.heap, calls |-> <<>>,
              uploads |-> tp.uploads, ret |-> None]
        ELSE validate_checked(s1, validate_value(s1, cv.val, cv.heap, now),
                              tp.uploads, cv.val)

\* validate_coerced going on with the coercion even when it is falsy
validate_coerced_NoFallback(s0, tp, hp, now) ==
    IF tp.exc # "none"
    THEN [exc |-> tp.exc, self |-> s0, heap |-> hp, calls |-> <<>>,
          uploads |-> tp.uploads, ret |-> None]
    ELSE validate_cleaned(s0, tp, clean_value(s0, tp.val, hp, now), now)

\* validate() once to_python has returned tp:
\* python_value = self.to_python() or self.python_value, then clean_value
validate_coerced(s0, tp, hp, now) ==
    IF tp.exc # "none"
    THEN [exc |-> tp.exc, self |-> s0, heap |-> hp, calls |-> <<>>,
          uploads |-> tp.uploads, ret |-> None]
    ELSE validate_cleaned(s0, tp,
                          clean_value(s0, PyOr(tp.val, s0.python_value),
                                      hp, now),
                          now)

\* _Field.validate with cleaned_data None: the field, the heap and the trace
\* after the call, and what the call returns:
\* [exc, self, heap, calls, uploads, ret]
validate(self, hp, now) ==
    validate_coerced([self EXCEPT !.error = None],
                     to_python([self EXCEPT !.error = None]), hp, now)

-----------------------------------------------------------------------------
(* Factories.  A declared validator argument is either a class             *)
(* [isclass |-> TRUE, cls] or an instance [isclass |-> FALSE, ref]         *)
(* constructed when the factory was declared, which lives in the heap.     *)

ArgClass(c) == [isclass |-> TRUE, cls |-> c, ref |-> 0]
ArgInstance(r) == [isclass |-> FALSE, cls |-> "", ref |-> r]

\* the classes whose constructor can be called without arguments
NoArgClasses ==
    {"Required", "IsNumber", "IsNaturalNumber", "IsDate", "IsColor",
     "ValidEmail", "ValidURL", "BeforeNow", "AfterNow"}

\* cls() for a class of NoArgClasses (ValidURL: require_tld=True)
VNewDefault(cls) == VNew(cls, PyBool(TRUE), None)

\* _Field._validator_in: v == validator or isinstance(v, validator)
validator_in(validator, validators, hp) ==
    \E i \in 1..Len(validators) :
        IF validators[i].isclass THEN validators[i].cls = validator
        ELSE IsSubclass(hp[validators[i].ref].cls, validator)

\* [val() if inspect.isclass(val) else val for val in validate]:
\* [exc, refs, heap]
RECURSIVE Instantiate(_, _)
Instantiate(args, hp) ==
    IF Len(args) = 0 THEN [exc |-> "none", refs |-> <<>>, heap |-> hp]
    ELSE IF Head(args).isclass /\ Head(args).cls \notin NoArgClasses
    THEN [exc |-> "TypeError", refs |-> <<>>, heap |-> hp]
    ELSE LET hp1 == IF Head(args).isclass
                    THEN Append(hp, VNewDefault(Head(args).cls).obj)
                    ELSE hp
             ref == IF Head(args).isclass THEN Len(hp1) ELSE Head(args).ref
             rest == Instantiate(Tail(args), hp1)
         IN  [rest EXCEPT !.refs = <<ref>> \o @]

\* _Text.__init__ putting the default validator first
Text_init_Prepend(kind, vargs, hp) ==
    LET defval == DefaultValidator(kind)
    IN  IF defval # "" /\ ~validator_in(defval, vargs, hp)
        THEN [args |-> <<ArgInstance(Len(hp) + 1)>> \o vargs,
              heap |-> Append(hp, VNewDefault(defval).obj)]
        ELSE [args |-> vargs, heap |-> hp]

\* _Text.__init__: the default validator is appended as a new instance
\* unless the declaration already names one; [args, heap]
Text_init(kind, vargs, hp) ==
    LET defval == DefaultValidator(kind)
    IN  IF defval # "" /\ ~validator_in(defval, vargs, hp)
        THEN [args |-> Append(vargs, ArgInstance(Len(hp) + 1)),
              heap |-> Append(hp, VNewDefault(defval).obj)]
        ELSE [args |-> vargs, heap |-> hp]

\* Field.make(): self._class(*self.args, **self.kwargs), that is the
\* __init__ chain of the class down to _Field.__init__; [exc, self, heap]
make(fac, hp) ==
    LET t == IF fac.kind \in TextKinds THEN Text_init(fac.kind, fac.args, hp)
             ELSE [args |-> fac.args, heap |-> hp]
        fl == Instantiate(fac.filters, t.heap)
        vs == Instantiate(t.args, fl.heap)
        e == IF fl.exc # "none" THEN fl.exc ELSE vs.exc
    IN  [exc |-> e,
         heap |-> IF e = "none" THEN vs.heap ELSE hp,
         self |-> IF e # "none" THEN NoField
                  ELSE [kind |-> fac.kind,
                        validators |-> vs.refs,
                        optional |-> ~validator_in("Required", t.args, t.heap),
                        extra |-> fac.kwargs,
                        value |-> None,
                        python_value |-> None,
                        original_value |-> None,
                        error |-> None,
                        has_changed |-> FALSE,
                        hide_value |-> fac.hide_value,
                        upload |-> fac.upload,
                        clean |-> fac.clean,
                        items |-> fac.items,
                        filters |-> fl.refs]]

-----------------------------------------------------------------------------
(* The declarations explored: one field factory per behaviour, each with   *)
(* the validators it is declared with.                                      *)

C(cls) == [isclass |-> TRUE, cls |-> cls, a |-> None, b |-> None]
I(cls, a, b) == [isclass |-> FALSE, cls |-> cls, a |-> a, b |-> b]

\* the arguments of a declaration, instances constructed in order:
\* [args, heap]
RECURSIVE Declare(_, _)
Declare(vspecs, hp) ==
    IF Len(vspecs) = 0 THEN [args |-> <<>>, heap |-> hp]
    ELSE LET v == Head(vspecs)
             hp1 == IF v.isclass THEN hp
                    ELSE Append(hp, VNew(v.cls, v.a, v.b).obj)
             arg == IF v.isclass THEN ArgClass(v.cls) ELSE ArgInstance(Len(hp1))
             rest == Declare(Tail(vspecs), hp1)
         IN  [rest EXCEPT !.args = <<arg>> \o @]

\* Field.__init__ of the factory: the arguments are only stored
D(kind, vspecs) ==
    [kind |-> kind, vspecs |-> vspecs, fspecs |-> <<>>,
     hide_value |-> kind \in {"Password", "File"},
     upload |-> "", clean |-> "", items |-> <<>>,
     kwargs |-> <<<<"classes", "big">>>>]

NameA == PyStr(<<"a">>)
NameB == PyStr(<<"b">>)
NameC == PyStr(<<"c">>)

Declarations ==
    { D("Text", <<>>),
      D("Text", <<C("Required")>>),
      D("Text", <<I("LongerThan", PyInt(2), None),
                  I("ShorterThan", PyInt(3), None)>>),
      D("Text", <<C("Required"), I("ShorterThan", PyInt(1), None),
                  I("LongerThan", PyInt(3), None)>>),
      D("Text", <<I("AreEqual", NameA, NameB), C("Required"),
                  I("AreEqual", NameA, NameC)>>),
      D("Password", <<C("Required")>>),
      D("Number", <<>>),
      D("Number", <<C("Required")>>),
      D("Number", <<I("InRange", PyInt(4), PyInt(10))>>),
      D("Number", <<I("MoreThan", PyInt(1), None), C("Required")>>),
      D("Number", <<C("IsNumber"), I("Required", None, None)>>),
      D("NaturalNumber", <<>>),
      D("Email", <<>>),
      D("URL", <<>>),
      D("URL", <<C("Required")>>),
      D("Date", <<>>),
      D("DateTime", <<C("Required")>>),
      D("Color", <<>>),
      D("Boolean", <<>>),
      D("File", <<>>),
      [D("File", <<C("Required")>>) EXCEPT !.upload = "fail"],
      [D("File", <<C("Required")>>) EXCEPT !.upload = "store"],
      D("Select", <<C("Required")>>),
      [D("Select", <<>>) EXCEPT !.clean = "int"],
      D("SelectMulti", <<>>),
      [D("SelectMulti", <<C("Required")>>) EXCEPT !.clean = "int"],
      D("Collection", <<>>),
      [D("Collection", <<C("Required")>>) EXCEPT
           !.fspecs = <<C("IsNumber")>>, !.clean = "int"] }

PyFile == [t |-> "file", v |-> 1]

S(chars) == PyStr(chars)

\* raw inputs handed to a field: null, strings and lists of strings
CommonRaw ==
    { None, S(<<>>), S(<<" ", "x", " ">>), S(<<"0">>), S(<<"3">>),
      S(<<"7">>), S(<<"1", "2">>),
      PyList(<<>>), PyList(<<S(<<"7">>), S(<<" ", "x">>)>>) }

RawFor(kind) ==
    CommonRaw \cup
    CASE kind = "URL" -> {S(<<"a", ".", "b", "c">>)}
      [] kind = "Email" -> {S(<<"a", "@", "b", ".", "c", "d">>)}
      [] kind = "Text" -> {S(<<"a", ".", "b", "c">>), S(<<" ", " ">>)}
      [] kind = "File" -> {PyFile}
      [] kind = "NaturalNumber" -> {S(<<"-", "5">>)}
      [] kind = "Collection" ->
            {S(<<"a", ",", " ", "b", " ", ",", "c">>)}
      [] kind = "Color" ->
            {S(<<"#", "a", "b", "c">>),
             S(<<"r", "g", "b", "(", "2", "5", "6", ",", "0", ",", "0", ")">>)}
      [] OTHER -> {}

\* original values given to _init
OrigFor(kind) ==
    {None} \cup
    CASE kind \in {"Number", "NaturalNumber"} -> {PyFloat(5)}
      [] kind \in {"SelectMulti", "Collection"} -> {PyList(<<S(<<"7">>)>>)}
      [] kind \in {"Date", "DateTime"} -> {PyDateTime(9, 0)}
      [] OTHER -> {S(<<"x">>)}

\* the `files` argument of _init
FilesFor(kind) == IF kind = "File" THEN {None, PyFile} ELSE {None}

Dict(pairs) == [t |-> "dict", v |-> pairs]

\* clean-data mappings handed to the form-level phase
FormData ==
    { Dict(<<>>),
      Dict(<<<<NameA, S(<<"x">>)>>, <<NameB, S(<<"x">>)>>, <<NameC, S(<<"x">>)>>>>),
      Dict(<<<<NameA, S(<<"x">>)>>, <<NameB, S(<<"x">>)>>, <<NameC, S(<<"y">>)>>>>),
      Dict(<<<<NameA, S(<<"x">>)>>, <<NameB, S(<<"y">>)>>, <<NameC, S(<<"y">>)>>>>) }

\* values of datetime.datetime.utcnow()
Nows == {PyDateTime(10, 0)}

FieldIds == {1, 2}

NoProbe == [made |-> FALSE, exc |-> "none", obj |-> Failed("none").obj,
            prev |-> Failed("none").obj, new |-> <<"", None, None>>,
            called |-> FALSE, arg |-> None, ok |-> FALSE]

\* nothing returned yet
NoOut == [op |-> "none", arg |-> None, val |-> None]

-----------------------------------------------------------------------------
(* The field life cycle: declare, make(), _init(), assign value, validate() *)

\* a factory declared as one of `declarations`, and nothing made from it yet
InitFrom(declarations) ==
    /\ \E d \in declarations :
         LET vd == Declare(d.vspecs, <<>>)
             fd == Declare(d.fspecs, vd.heap)
         IN  /\ factory = [kind |-> d.kind, args |-> vd.args,
                           filters |-> fd.args, hide_value |-> d.hide_value,
                           upload |-> d.upload, clean |-> d.clean,
                           items |-> d.items, kwargs |-> d.kwargs]
             /\ heap = fd.heap
    /\ fields = [f \in FieldIds |-> NoField]
    /\ calls = <<>>
    /\ uploads = 0
    /\ exc = "none"
    /\ last = [op |-> "declare", f |-> 0, arg |-> None]
    /\ probe = NoProbe
    /\ out = NoOut
    /\ steps = 0

Init == InitFrom(Declarations)

Made_(f) == fields[f].kind # "none"

\* Field.make(): a new instance in slot f
Make(f) ==
    /\ steps < MaxSteps
    /\ ~Made_(f)
    /\ \A g \in FieldIds : g < f => Made_(g)
    /\ LET r == make(factory, heap)
       IN  /\ fields' = [fields EXCEPT ![f] = r.self]
           /\ heap' = r.heap
           /\ exc' = r.exc
    /\ calls' = <<>>
    /\ uploads' = 0
    /\ last' = [op |-> "make", f |-> f, arg |-> None]
    /\ steps' = steps + 1
    /\ out' = NoOut
    /\ UNCHANGED <<factory, probe>>

\* _Field._init(data, original_value, files)
DoInit(f, data, original_value, files) ==
    /\ steps < MaxSteps
    /\ Made_(f)
    /\ LET sv == SetValue(fields[f].kind, PyOr(data, files))
       IN  /\ exc' = sv.exc
           /\ fields' = IF sv.exc # "none" THEN fields
                        ELSE [fields EXCEPT ![f].value = sv.val,
                                            ![f].python_value = original_value,
                                            ![f].original_value = original_value]
    /\ calls' = <<>>
    /\ uploads' = 0
    /\ last' = [op |-> "init", f |-> f, arg |-> PyOr(data, files)]
    /\ steps' = steps + 1
    /\ out' = NoOut
    /\ UNCHANGED <<factory, heap, probe>>

\* field.value = raw   (the `value` property setter)
Load(f, raw) ==
    /\ steps < MaxSteps
    /\ Made_(f)
    /\ LET sv == SetValue(fields[f].kind, raw)
       IN  /\ exc' = sv.exc
           /\ fields' = IF sv.exc # "none" THEN fields
                        ELSE [fields EXCEPT ![f].value = sv.val]
    /\ calls' = <<>>
    /\ uploads' = 0
    /\ last' = [op |-> "load", f |-> f, arg |-> raw]
    /\ steps' = steps + 1
    /\ out' = NoOut
    /\ UNCHANGED <<factory, heap, probe>>

\* field.validate()
Validate(f, now) ==
    /\ steps < MaxSteps
    /\ Made_(f)
    /\ \E r \in {validate(fields[f], heap, now)} :
           /\ fields' = [fields EXCEPT ![f] = r.self]
           /\ heap' = r.heap
           /\ calls' = r.calls
           /\ uploads' = r.uploads
           /\ exc' = r.exc
           /\ out' = [op |-> "validate", arg |-> None, val |-> r.ret]
    /\ last' = [op |-> "validate", f |-> f, arg |-> None]
    /\ steps' = steps + 1
    /\ UNCHANGED <<factory, probe>>

\* field.validate(cleaned_data) assigning the outcome of the loop to `error`
\* even when no validator failed
ValidateForm_AssignsError(f, cleaned_data, now) ==
    /\ steps < MaxSteps
    /\ Made_(f)
    /\ \E r \in {validate_form(fields[f], cleaned_data, heap, now)} :
           /\ fields' = [fields EXCEPT ![f].error = r.error]
           /\ heap' = r.heap
           /\ calls' = r.calls
           /\ exc' = r.exc
    /\ uploads' = 0
    /\ last' = [op |-> "validate_form", f |-> f, arg |-> cleaned_data]
    /\ steps' = steps + 1
    /\ out' = NoOut
    /\ UNCHANGED <<factory, probe>>

\* field.validate(cleaned_data)
ValidateForm(f, cleaned_data, now) ==
    /\ steps < MaxSteps
    /\ Made_(f)
    /\ \E r \in {validate_form(fields[f], cleaned_data, heap, now)} :
           /\ fields' = IF IsNone(r.error) THEN fields
                        ELSE [fields EXCEPT ![f].error = r.error]
           /\ heap' = r.heap
           /\ calls' = r.calls
           /\ exc' = r.exc
    /\ uploads' = 0
    /\ last' = [op |-> "validate_form", f |-> f, arg |-> cleaned_data]
    /\ steps' = steps + 1
    /\ out' = NoOut
    /\ UNCHANGED <<factory, probe>>

Next ==
    \/ \E f \in FieldIds : Make(f)
    \/ \E f \in FieldIds :
         \E data \in RawFor(factory.kind) :
           \E orig \in OrigFor(factory.kind) :
             \E files \in FilesFor(factory.kind) :
               DoInit(f, data, orig, files)
    \/ \E f \in FieldIds : \E raw \in RawFor(factory.kind) : Load(f, raw)
    \/ \E f \in FieldIds : \E now \in Nows : Validate(f, now)
    \/ \E f \in FieldIds : \E d \in FormData : \E now \in Nows :
         ValidateForm(f, d, now)

Spec == Init /\ [][Next]_vars

-----------------------------------------------------------------------------
(* Validators on their own: construct one, call it *)

\* constructor arguments tried for each class
ProbeParams(cls) ==
    CASE cls \in {"LongerThan", "ShorterThan"} -> {<<PyInt(2), None>>}
      [] cls \in {"LessThan", "MoreThan"} -> {<<PyInt(4), None>>}
      [] cls = "InRange" -> {<<PyInt(4), PyInt(10)>>}
      [] cls = "Match" -> {<<S(<<"[", "0", "-", "9", "]", "+">>), None>>}
      [] cls = "ValidURL" -> {<<PyBool(TRUE), None>>, <<PyBool(FALSE), None>>}
      [] cls \in {"Before", "After"} ->
            {<<PyDateTime(10, 0), None>>, <<PyDate(10), None>>}
      [] cls = "AreEqual" -> {<<NameA, NameB>>}
      [] OTHER -> {<<None, None>>}

\* values a validator is called with
ProbeValues ==
    { None, S(<<>>), S(<<"x">>), S(<<"7">>), S(<<"-", "1">>),
      S(<<"a", ".", "b", "c">>), S(<<"a", "@", "b", ".", "c", "d">>),
      S(<<"#", "f", "f", "a", "f", "2", "e">>),
      PyInt(0), PyInt(3), PyInt(4), PyInt(10), PyInt(11), PyFloat(7),
      PyDate(9), PyDateTime(9, 0), PyDateTime(10, 0), PyDateTime(11, 0) }

InitV ==
    /\ Init
    /\ factory.kind = "Text"
    /\ Len(factory.args) = 0

\* cls(a, b)
Construct(cls, a, b) ==
    /\ LET r == VNew(cls, a, b)
       IN  probe' = [made |-> TRUE, exc |-> r.exc, obj |-> r.obj,
                     prev |-> r.obj, new |-> <<cls, a, b>>,
                     called |-> FALSE, arg |-> None, ok |-> FALSE]
    /\ UNCHANGED <<factory, heap, fields, calls, uploads, exc, last, steps, out>>

\* validator(x)
CallProbe(x, now) ==
    /\ probe.made
    /\ probe.exc = "none"
    /\ (x.t = "dict") = IsFormValidator(probe.obj)
    /\ LET r == VCall(probe.obj, x, now)
       IN  probe' = [made |-> TRUE, exc |-> r.exc, obj |-> r.obj,
                     prev |-> probe.obj, new |-> probe.new,
                     called |-> TRUE, arg |-> x, ok |-> r.ok]
    /\ UNCHANGED <<factory, heap, fields, calls, uploads, exc, last, steps, out>>

NextV ==
    \/ \E cls \in ValidatorClasses : \E p \in ProbeParams(cls) :
         Construct(cls, p[1], p[2])
    \/ \E x \in ProbeValues \cup FormData : \E now \in Nows : CallProbe(x, now)

SpecV == InitV /\ [][NextV]_vars

-----------------------------------------------------------------------------
(* HTML attributes.  A mapping of keyword arguments is the sequence of its   *)
(* <<key, value>> pairs in iteration order; the keys are distinct.           *)

\* the characters of the model in code-point order
CodePoints ==
    <<" ", "\"", "#", "'", "(", ")", ",", "-", ".">> \o Digits
        \o <<"=", "@",
              "A", "B", "C", "D", "E", "F", "G", "H", "I", "J", "K", "L", "M",
              "N", "O", "P", "Q", "R", "S", "T", "U", "V", "W", "X", "Y", "Z",
              "[", "]", "_",
              "a", "b", "c", "d", "e", "f", "g", "h", "i", "j", "k", "l", "m",
              "n", "o", "p", "q", "r", "s", "t", "u", "v", "w", "x", "y", "z">>

Ord(c) == CHOOSE i \in 1..Len(CodePoints) : CodePoints[i] = c

\* a < b on strings
RECURSIVE StrLt(_, _)
StrLt(a, b) ==
    IF Len(b) = 0 THEN FALSE
    ELSE IF Len(a) = 0 THEN TRUE
    ELSE IF Head(a) = Head(b) THEN StrLt(Tail(a), Tail(b))
    ELSE Ord(Head(a)) < Ord(Head(b))

\* x put into the sorted list l
RECURSIVE Insert(_, _)
Insert(x, l) ==
    IF Len(l) = 0 THEN <<x>>
    ELSE IF StrLt(x, Head(l)) THEN <<x>> \o l
    ELSE <<Head(l)>> \o Insert(x, Tail(l))

\* list.sort() on strings
RECURSIVE Sort(_)
Sort(l) == IF Len(l) = 0 THEN <<>> ELSE Insert(Head(l), Sort(Tail(l)))

\* sep.join(l)
RECURSIVE Join(_, _)
Join(l, sep) ==
    IF Len(l) = 0 THEN <<>>
    ELSE IF Len(l) = 1 THEN Head(l)
    ELSE Head(l) \o sep \o Join(Tail(l), sep)

\* key.replace('_', '-')
Dashed(key) == [i \in 1..Len(key) |-> IF key[i] = "_" THEN "-" ELSE key[i]]

\* xml.sax.saxutils.quoteattr on text without &, < and >
quoteattr(data) ==
    IF \E i \in 1..Len(data) : data[i] = "\""
    THEN (IF \E i \in 1..Len(data) : data[i] = "'"
          THEN <<"\"">> \o data \o <<"\"">>
          ELSE <<"'">> \o data \o <<"'">>)
    ELSE <<"\"">> \o data \o <<"\"">>

\* to_unicode(value): the text of a value
to_unicode(value) == StrOf(value)

\* re.split(r'\s+', classes) of a stripped string: its non-empty tokens
Tokens(s) == SelectSeq(Split(s, " "), LAMBDA t : Len(t) > 0)

Classes == <<"c", "l", "a", "s", "s", "e", "s">>

HasKey(kwargs, key) == \E i \in 1..Len(kwargs) : kwargs[i][1] = key

\* kwargs.get(key, default)
KwGet(kwargs, key, default) ==
    IF HasKey(kwargs, key)
    THEN kwargs[CHOOSE i \in 1..Len(kwargs) : kwargs[i][1] = key][2]
    ELSE default

\* the loop of _get_html_attrs over kwargs.iteritems(): [attrs, props]
RECURSIVE AttrLoop(_, _, _)
AttrLoop(kwargs, attrs, props) ==
    IF Len(kwargs) = 0 THEN [attrs |-> attrs, props |-> props]
    ELSE LET key == Dashed(Head(kwargs)[1])
             value == Head(kwargs)[2]
         IN  IF value.t = "bool"
             THEN AttrLoop(Tail(kwargs), attrs,
                           IF value.v THEN Append(props, key) ELSE props)
             ELSE AttrLoop(Tail(kwargs),
                           Append(attrs, key \o <<"=">>
                                         \o quoteattr(to_unicode(value))),
                           props)

\* _Field._get_html_attrs: [exc, val]
get_html_attrs(kwargs) ==
    LET given == KwGet(kwargs, Classes, PyStr(<<>>))
    IN  IF ~IsStr(given) THEN [exc |-> "AttributeError", val |-> <<>>]
        ELSE LET classes == Strip(given.v)
                 attrs0 == IF Len(classes) = 0 THEN <<>>
                           ELSE << <<"c", "l", "a", "s", "s", "=">>
                                   \o quoteattr(Join(Tokens(classes), <<" ">>)) >>
                 rest == SelectSeq(kwargs, LAMBDA p : p[1] # Classes)
                 r == AttrLoop(rest, attrs0, <<>>)
             IN  [exc |-> "none",
                  val |-> Join(Sort(r.attrs) \o Sort(r.props), <<" ">>)]

\* Most keyword arguments in one mapping.
MaxAttrs == 4

\* the keyword arguments a mapping is made of
AttrPairs ==
    { <<Classes, S(<<" ", "f", "o", "o", " ", " ", "b", "a", "r", " ">>)>>,
      <<<<"d", "a", "t", "a", "_", "i", "d">>, PyInt(1)>>,
      <<<<"d", "a", "t", "a">>, S(<<"x">>)>>,
      <<<<"c", "h", "e", "c", "k", "e", "d">>, PyBool(TRUE)>>,
      <<<<"a", "u", "t", "o">>, PyBool(TRUE)>>,
      <<<<"h", "i", "d", "d", "e", "n">>, PyBool(FALSE)>> }

\* the mappings, in every iteration order
AttrMaps ==
    UNION { { m \in [1..n -> AttrPairs] :
                \A i, j \in 1..n : m[i] = m[j] => i = j } : n \in 0..MaxAttrs }

InitA ==
    /\ Init
    /\ factory.kind = "Text"
    /\ Len(factory.args) = 0

\* field._get_html_attrs(kwargs)
GetHtmlAttrs(kwargs) ==
    /\ \E r \in {get_html_attrs(kwargs)} :
           /\ out' = [op |-> "attrs", arg |-> kwargs, val |-> r.val]
           /\ exc' = r.exc
    /\ UNCHANGED <<factory, heap, fields, calls, uploads, last, probe, steps>>

NextA == \E kwargs \in AttrMaps : GetHtmlAttrs(kwargs)

SpecA == InitA /\ [][NextA]_vars

-----------------------------------------------------------------------------
(* The `value` getter and the default rendering.  _Date and _DateTime      *)
(* format their value through babel and are not rendered here.             *)

\* _Field.to_html: to_unicode(self.python_value or u'')
Field_to_html(self) == PyStr(to_unicode(PyOr(self.python_value, PyStr(<<>>))))

\* _File.to_html
File_to_html(self) == self.python_value

\* the default `sep` of _Collection
Sep == <<",", " ">>

\* self.sep.join(value): [exc, val]
SepJoin(value) ==
    CASE value.t = "list" /\ (\A i \in 1..Len(value.v) : IsStr(value.v[i])) ->
            [exc |-> "none",
             val |-> PyStr(Join([i \in 1..Len(value.v) |-> value.v[i].v], Sep))]
      [] value.t = "str" ->
            [exc |-> "none",
             val |-> PyStr(Join([i \in 1..Len(value.v) |-> <<value.v[i]>>], Sep))]
      [] OTHER -> [exc |-> "TypeError", val |-> None]

\* _Collection.to_html
Collection_to_html(self) == SepJoin(PyOr(self.python_value, PyList(<<>>)))

\* to_html of the field's class: [exc, val]
to_html(self) ==
    CASE self.kind = "File" -> [exc |-> "none", val |-> File_to_html(self)]
      [] self.kind = "Collection" -> Collection_to_html(self)
      [] OTHER -> [exc |-> "none", val |-> Field_to_html(self)]

\* _Field._get_value without the hide_value test
Field_get_value_NoHide(self) ==
    IF ~Truthy(self.value) THEN to_html(self)
    ELSE [exc |-> "none", val |-> self.value]

\* _Field._get_value
Field_get_value(self) ==
    IF self.hide_value THEN [exc |-> "none", val |-> PyStr(<<>>)]
    ELSE IF ~Truthy(self.value) THEN to_html(self)
    ELSE [exc |-> "none", val |-> self.value]

\* _SelectMulti._get_value
SelectMulti_get_value(self) ==
    [exc |-> "none",
     val |-> IF Truthy(self.value) /\ ~self.hide_value THEN self.value
             ELSE PyList(<<>>)]

\* _Collection._get_value
Collection_get_value(self) ==
    IF self.hide_value THEN [exc |-> "none", val |-> PyStr(<<>>)]
    ELSE IF Truthy(self.value) THEN SepJoin(self.value)
    ELSE to_html(self)

\* the `value` getter of the field's class: [exc, val]
get_value(self) ==
    CASE self.kind = "SelectMulti" -> SelectMulti_get_value(self)
      [] self.kind = "Collection" -> Collection_get_value(self)
      [] OTHER -> Field_get_value(self)

\* kwargs[key] = value
KwSet(kwargs, key, value) ==
    IF HasKey(kwargs, key)
    THEN [i \in 1..Len(kwargs) |->
              IF kwargs[i][1] = key THEN <<key, value>> ELSE kwargs[i]]
    ELSE Append(kwargs, <<key, value>>)

\* the class attribute `name`
Name == S(<<"u", "n", "n", "a", "m", "e", "d">>)

\* the item attributes of as_select and as_radiobuttons: `mark` is set to
\* True when str(value) == curr_value
ItemAttrs(base, item, curr_value, mark) ==
    LET a == KwSet(base, <<"v", "a", "l", "u", "e">>, item[1])
    IN  IF PyEq(PyStr(StrOf(item[1])), curr_value)
        THEN KwSet(a, mark, PyBool(TRUE)) ELSE a

\* the markup of a group: the tag attributes and, for each item, the
\* template filled with the item's attributes and label; [exc, val]
Group(widget, head, items, attrs) ==
    [exc |-> IF \E i \in 1..Len(items) : attrs[i].exc # "none"
             THEN "AttributeError" ELSE head.exc,
     val |-> [widget |-> widget, head |-> head.val,
              lines |-> [i \in 1..Len(items) |->
                             [attrs |-> attrs[i].val, label |-> items[i][2]]]]]

\* _Select.as_select with the value of the getter given as curr
Select_as_select(self, items, kwargs, curr) ==
    Group("select",
          get_html_attrs(KwSet(kwargs, <<"n", "a", "m", "e">>, Name)),
          items,
          [i \in 1..Len(items) |->
               get_html_attrs(ItemAttrs(<<>>, items[i], curr.val,
                                        <<"s", "e", "l", "e", "c", "t", "e", "d">>))])

\* _Select.as_radiobuttons with the value of the getter given as curr
Select_as_radiobuttons(self, items, kwargs, curr) ==
    Group("radio",
          [exc |-> "none", val |-> <<>>],
          items,
          [i \in 1..Len(items) |->
               get_html_attrs(
                   ItemAttrs(KwSet(KwSet(kwargs, <<"t", "y", "p", "e">>,
                                         S(<<"r", "a", "d", "i", "o">>)),
                                   <<"n", "a", "m", "e">>, Name),
                             items[i], curr.val,
                             <<"c", "h", "e", "c", "k", "e", "d">>))])

\* _Select.__call__ marking against the raw value instead of the getter's
Select_call_RawValue(self, kwargs) ==
    IF Len(self.items) > 5
    THEN Select_as_select(self, self.items, kwargs,
                          [exc |-> "none", val |-> self.value])
    ELSE Select_as_radiobuttons(self, self.items, kwargs,
                                [exc |-> "none", val |-> self.value])

\* _Select.__call__: [exc, val]
Select_call(self, kwargs) ==
    IF Len(self.items) > 5
    THEN Select_as_select(self, self.items, kwargs, get_value(self))
    ELSE Select_as_radiobuttons(self, self.items, kwargs, get_value(self))

\* the type attribute of the class (_type)
TypeOf(kind) ==
    CASE kind = "Password" -> <<"p", "a", "s", "s", "w", "o", "r", "d">>
      [] kind \in {"Number", "NaturalNumber"} -> <<"n", "u", "m", "b", "e", "r">>
      [] kind = "Email" -> <<"e", "m", "a", "i", "l">>
      [] kind = "URL" -> <<"u", "r", "l">>
      [] kind \in {"Date", "DateTime"} ->
            <<"d", "a", "t", "e", "t", "i", "m", "e">>
      [] kind = "Color" -> <<"c", "o", "l", "o", "r">>
      [] OTHER -> <<"t", "e", "x", "t">>

\* _Text.as_input: [exc, val]
Text_as_input(self, kwargs) ==
    LET typed == IF HasKey(kwargs, <<"t", "y", "p", "e">>) THEN kwargs
                 ELSE KwSet(kwargs, <<"t", "y", "p", "e">>, S(TypeOf(self.kind)))
        named == KwSet(typed, <<"n", "a", "m", "e">>, Name)
        curr == get_value(self)
    IN  IF curr.exc # "none" THEN [exc |-> curr.exc, val |-> None]
        ELSE Group("input",
                   get_html_attrs(KwSet(named, <<"v", "a", "l", "u", "e">>,
                                        curr.val)),
                   <<>>, <<>>)

\* _File.as_input: [exc, val]
File_as_input(self, kwargs) ==
    Group("input",
          get_html_attrs(KwSet(KwSet(kwargs, <<"t", "y", "p", "e">>,
                                     S(<<"f", "i", "l", "e">>)),
                               <<"n", "a", "m", "e">>, Name)),
          <<>>, <<>>)

\* the classes whose __call__ is modelled
Rendered == {"Text", "Password", "File", "Select"}

\* field(**kwargs): the default rendering of the field's class; [exc, val]
call(self, kwargs) ==
    CASE self.kind = "Select" -> Select_call(self, kwargs)
      [] self.kind = "File" -> File_as_input(self, kwargs)
      [] OTHER -> Text_as_input(self, kwargs)

\* items (value, label) of the Select fields
ItemsAB ==
    << <<S(<<"a">>), <<"A", "l", "p", "h", "a">>>>,
       <<S(<<"b">>), <<"B", "e", "t", "a">>>> >>

\* n items (i, "Ni") with integer values
ItemsN(n) == [i \in 1..n |-> <<PyInt(i), <<"N">> \o IntStr(i)>>]

\* the factories rendered.  hide_value is True for _Password (its default)
\* and _File; it is set on the other classes by a subclass or an assignment
RenderDeclarations ==
    { D("Text", <<>>),
      D("Password", <<>>),
      [D("Password", <<>>) EXCEPT !.hide_value = FALSE],
      D("File", <<>>),
      [D("Select", <<>>) EXCEPT !.items = ItemsAB],
      [D("Select", <<>>) EXCEPT !.items = ItemsAB, !.clean = "int"],
      [D("Select", <<>>) EXCEPT !.items = ItemsAB, !.hide_value = TRUE],
      [D("Select", <<>>) EXCEPT !.items = ItemsN(5)],
      [D("Select", <<>>) EXCEPT !.items = ItemsN(6)],
      [D("SelectMulti", <<>>) EXCEPT !.items = ItemsAB],
      [D("SelectMulti", <<>>) EXCEPT !.items = ItemsAB, !.hide_value = TRUE],
      D("Collection", <<>>),
      [D("Collection", <<>>) EXCEPT !.hide_value = TRUE] }

\* raw inputs and original values of the rendered fields
RenderRaw ==
    { None, S(<<>>), S(<<"b">>), S(<<"3">>), S(<<" ", "x", " ">>),
      PyList(<<S(<<"b">>), S(<<"3">>)>>) }

RenderOrig(kind) ==
    IF kind \in {"SelectMulti", "Collection"}
    THEN {None, PyList(<<S(<<"b">>)>>)}
    ELSE {None, S(<<"b">>), PyInt(3)}

\* keyword arguments of a rendering call
RenderKwargs ==
    { <<>>, << <<Classes, S(<<"b", "i", "g">>)>> >> }

InitR == InitFrom(RenderDeclarations)

\* field.value   (the `value` property getter)
GetValue(f) ==
    /\ steps < MaxSteps
    /\ Made_(f)
    /\ \E r \in {get_value(fields[f])} :
           /\ out' = [op |-> "value", arg |-> None, val |-> r.val]
           /\ exc' = r.exc
    /\ calls' = <<>>
    /\ uploads' = 0
    /\ last' = [op |-> "value", f |-> f, arg |-> None]
    /\ steps' = steps + 1
    /\ UNCHANGED <<factory, heap, fields, probe>>

\* field(**kwargs)
Call(f, kwargs) ==
    /\ steps < MaxSteps
    /\ Made_(f)
    /\ fields[f].kind \in Rendered
    /\ \E r \in {call(fields[f], kwargs)} :
           /\ out' = [op |-> "call", arg |-> kwargs, val |-> r.val]
           /\ exc' = r.exc
    /\ calls' = <<>>
    /\ uploads' = 0
    /\ last' = [op |-> "call", f |-> f, arg |-> None]
    /\ steps' = steps + 1
    /\ UNCHANGED <<factory, heap, fields, probe>>

NextR ==
    \/ Make(1)
    \/ \E data \in RenderRaw : \E orig \in RenderOrig(factory.kind) :
         DoInit(1, data, orig, None)
    \/ \E raw \in RenderRaw : Load(1, raw)
    \/ GetValue(1)
    \/ \E kwargs \in RenderKwargs : Call(1, kwargs)

SpecR == InitR /\ [][NextR]_vars

-----------------------------------------------------------------------------
(* Properties *)

TheNow == CHOOSE n \in Nows : TRUE

\* the validators of a field that are not form-level, in declaration order
ValueRefs(self) ==
    SelectSeq(self.validators, LAMBDA r : ~IsFormValidator(heap[r]))

\* the form-level validators of a field, in declaration order
FormRefs(self) ==
    SelectSeq(self.validators, LAMBDA r : IsFormValidator(heap[r]))

\* what validate() coerces the raw value of the field to: to_python()
Coerced(self) == to_python(self)

\* the value validate() goes on with: the coercion, or the stored
\* python_value when the coercion is falsy, through clean_value
Cleaned(self) ==
    clean_value(self, PyOr(Coerced(self).val, self.python_value), heap, TheNow)

AfterValidate == last.op = "validate" /\ Made_(last.f)

\* the value-level phase reached the validator chain
ChainRan ==
    /\ AfterValidate
    /\ LET self == fields[last.f]
       IN  /\ Coerced(self).exc = "none"
           /\ Cleaned(self).exc = "none"
           /\ ~IsValidationError(Cleaned(self).val)
           /\ ~(IsNone(Cleaned(self).val) /\ self.optional)

\* refs[1..k] were called in order with x, all but possibly the last
\* accepted, and the error is the last one's when it rejected
StoppedAtFirstFailure(refs, x, error) ==
    LET k == Len(calls)
        ok(i) == VCall(heap[refs[i]], x, TheNow).ok
    IN  /\ k <= Len(refs)
        /\ \A i \in 1..k : calls[i].ref = refs[i] /\ calls[i].arg = x
        /\ \A i \in 1..(k - 1) : ok(i)
        /\ IF k > 0 /\ ~ok(k)
           THEN error = ValidationError(heap[refs[k]].code,
                                        heap[refs[k]].message)
           ELSE k = Len(refs)

\* C1: in the value-level phase, when the coerced value is not
\* short-circuited, the non-form-level validators are called in declaration
\* order up to the first that returns false; the field's error carries that
\* validator's code and message and no later validator is called.
C1_ChainStopsAtFirstFailure ==
    ChainRan =>
        LET self == fields[last.f]
        IN  /\ StoppedAtFirstFailure(ValueRefs(self), Cleaned(self).val,
                                     self.error)
            /\ (\A i \in 1..Len(calls) :
                    VCall(heap[calls[i].ref], calls[i].arg, TheNow).ok)
                 => self.error = None

\* C2 as stated: for an optional field whose coerced value (to_python()) is
\* null, value-level validate() ends with error = null and runs no validator.
C2_OptionalNullCoercionRunsNoValidator ==
    (/\ AfterValidate
     /\ fields[last.f].optional
     /\ Coerced(fields[last.f]).exc = "none"
     /\ IsNone(Coerced(fields[last.f]).val))
    => (exc = "none" /\ fields[last.f].error = None /\ calls = <<>>)

\* C2 amended: for an optional field, when the value validate() goes on with
\* (the coercion, or the stored python_value when the coercion is falsy,
\* through clean_value) is null, validate() ends with error = null and runs
\* no validator, the default one included; an optional Number field with no
\* stored python_value given empty input has no error and a null coercion.
C2_OptionalNullValueRunsNoValidator ==
    AfterValidate =>
        LET self == fields[last.f]
        IN  /\ (/\ self.optional
                /\ Coerced(self).exc = "none"
                /\ Cleaned(self).exc = "none"
                /\ IsNone(Cleaned(self).val))
               => (exc = "none" /\ self.error = None /\ calls = <<>>)
            /\ (/\ self.kind = "Number"
                /\ self.optional
                /\ self.value = S(<<>>)
                /\ IsNone(self.python_value))
               => (/\ exc = "none" /\ self.error = None /\ calls = <<>>
                   /\ IsNone(Coerced(self).val))

C2_Witness ==
    /\ AfterValidate
    /\ fields[last.f].kind = "Number"
    /\ fields[last.f].optional
    /\ fields[last.f].value = S(<<>>)
    /\ IsNone(fields[last.f].python_value)
    /\ Len(fields[last.f].validators) = 1
    /\ heap[fields[last.f].validators[1]].cls = "IsNumber"
    /\ fields[last.f].error = None
    /\ calls = <<>>

\* the factory was declared with a Required validator / with one first
DeclaredRequired == validator_in("Required", factory.args, heap)
DeclaredRequiredFirst ==
    Len(factory.args) > 0 /\ validator_in("Required", <<factory.args[1]>>, heap)

\* a Number field holds empty or non-numeric input
NumberWithoutNumber(self) ==
    /\ self.kind = "Number"
    /\ IsStr(self.value)
    /\ ~ParseFloat(self.value.v).ok

\* C3 as stated: a Number field declared with a Required validator and given
\* empty or non-numeric input ends validate() with error code `required`.
C3_RequiredNumberReportsRequired ==
    (AfterValidate /\ DeclaredRequired /\ NumberWithoutNumber(fields[last.f]))
    => (/\ IsValidationError(fields[last.f].error)
        /\ fields[last.f].error.code = "required")

\* C3 amended: a Number field whose first declared validator is Required and
\* whose stored python_value is null, given empty or non-numeric input, ends
\* validate() with error code `required` and the IsNumber default validator
\* is not called.
C3_RequiredFirstNumberReportsRequired ==
    (/\ AfterValidate
     /\ DeclaredRequiredFirst
     /\ NumberWithoutNumber(fields[last.f])
     /\ IsNone(fields[last.f].python_value))
    => (/\ exc = "none"
        /\ IsValidationError(fields[last.f].error)
        /\ fields[last.f].error.code = "required"
        /\ \A i \in 1..Len(calls) : heap[calls[i].ref].cls # "IsNumber")

C3_Witness ==
    /\ AfterValidate
    /\ DeclaredRequiredFirst
    /\ fields[last.f].kind = "Number"
    /\ fields[last.f].value = S(<<"x">>)
    /\ IsNone(fields[last.f].python_value)
    /\ IsValidationError(fields[last.f].error)
    /\ fields[last.f].error.code = "required"
    /\ Len(calls) = 1

\* C4: validate(), in either phase, on any field variant and raw input ends
\* without raising.
C4_ValidateNeverRaises ==
    last.op \in {"validate", "validate_form"} => exc = "none"

\* C5: right after a raw value is assigned to a field, its error is null.
C5_LoadResetsError ==
    (last.op \in {"load", "init"} /\ exc = "none")
    => fields[last.f].error = None

MultiValued(kind) == kind \in {"SelectMulti", "Collection"}

IsListOfStrings(x) ==
    x.t = "list" /\ \A i \in 1..Len(x.v) : IsStr(x.v[i])

\* C6: after assigning a string, a list of strings or null, the stored raw
\* value is a trimmed string or a list of strings; null gives the empty
\* string on a single-valued field, a list gives its first element or the
\* empty string there, and a multi-valued field stores the whole list.
C6_RawValueNormalized ==
    (/\ last.op \in {"load", "init"}
     /\ (IsNone(last.arg) \/ IsStr(last.arg) \/ IsListOfStrings(last.arg)))
    => LET self == fields[last.f]
           v == self.value
       IN  /\ exc = "none"
           /\ \/ IsStr(v) /\ Strip(v.v) = v.v
              \/ IsListOfStrings(v)
           /\ ~MultiValued(self.kind) =>
                 /\ IsNone(last.arg) => v = S(<<>>)
                 /\ last.arg.t = "list" =>
                       v = IF Len(last.arg.v) = 0 THEN S(<<>>)
                           ELSE S(Strip(last.arg.v[1].v))
           /\ (MultiValued(self.kind) /\ last.arg.t = "list") => v = last.arg

\* C7: when a File field has raw input and its upload callback raises,
\* validate() stores the resulting ValidationError as the error and calls no
\* validator; the upload callback is invoked only when raw input is present.
C7_UploadFailureBecomesError ==
    (AfterValidate /\ fields[last.f].kind = "File") =>
        LET self == fields[last.f]
        IN  /\ uploads > 0 => Truthy(self.value)
            /\ (Truthy(self.value) /\ self.upload = "fail") =>
                  /\ exc = "none"
                  /\ uploads = 1
                  /\ self.error = ValidationError("invalid_file", "disk full")
                  /\ calls = <<>>

C7_Witness ==
    /\ AfterValidate
    /\ fields[last.f].kind = "File"
    /\ fields[last.f].upload = "fail"
    /\ Truthy(fields[last.f].value)
    /\ Len(fields[last.f].validators) > 0
    /\ uploads = 1
    /\ IsValidationError(fields[last.f].error)
    /\ fields[last.f].error.code = "invalid_file"
    /\ calls = <<>>

\* C8: validate(cleaned_data) calls only the FormValidator instances, in
\* declaration order, each with the mapping, up to the first that fails,
\* whose code and message become the error; no form-level validator is
\* called in the value-level phase.
C8_FormPhaseCallsOnlyFormValidators ==
    /\ (last.op = "validate_form" /\ Made_(last.f)) =>
          /\ exc = "none"
          /\ StoppedAtFirstFailure(FormRefs(fields[last.f]), last.arg,
                                   fields[last.f].error)
          /\ \A i \in 1..Len(calls) : IsFormValidator(heap[calls[i].ref])
    /\ AfterValidate =>
          \A i \in 1..Len(calls) : ~IsFormValidator(heap[calls[i].ref])

C8_Witness ==
    /\ last.op = "validate_form"
    /\ Len(fields[last.f].validators) = 3
    /\ Len(calls) = 2
    /\ heap[calls[2].ref].cls = "AreEqual"
    /\ IsValidationError(fields[last.f].error)
    /\ fields[last.f].error.code = "not_equal"

\* what can be observed through instance g
Observable(fs, hp, g) ==
    <<fs[g].value, fs[g].error, fs[g].has_changed, fs[g].extra,
      [i \in 1..Len(fs[g].validators) |->
          <<hp[fs[g].validators[i]].code, hp[fs[g].validators[i]].message>>]>>

\* C9: an operation on one instance built by a factory leaves everything
\* observable through another instance of the same factory unchanged, also
\* when the factory was declared with an InRange instance.
C9_InstancesShareNoState ==
    [][\A g \in FieldIds :
          (Made_(g) /\ last'.f # g) =>
              Observable(fields', heap', g) = Observable(fields, heap, g)]_vars

\* C10: every validator has a non-empty code and a non-empty message right
\* after construction, before it has been called.
C10_CodeAndMessageAfterConstruction ==
    (probe.made /\ ~probe.called) =>
        /\ probe.exc = "none"
        /\ probe.obj.code \notin {NoAttr, ""}
        /\ probe.obj.message \notin {NoAttr, ""}

\* the validator under probe is an instance of cls that has just been called
ProbeCalled(cls) ==
    probe.made /\ probe.called /\ probe.obj.cls = cls

\* C11: InRange(min, max) called with a number accepts it iff
\* min <= value <= max; after a rejecting call the code is too_small when the
\* value was below min and too_big when it was above max, whatever code an
\* earlier call left on the instance.
C11_InRangeCodeNamesViolatedBound ==
    (ProbeCalled("InRange") /\ IsNum(probe.arg)) =>
        /\ probe.exc = "none"
        /\ probe.ok <=> (probe.obj.a.v <= probe.arg.v
                         /\ probe.arg.v <= probe.obj.b.v)
        /\ probe.arg.v < probe.obj.a.v => probe.obj.code = "too_small"
        /\ probe.arg.v > probe.obj.b.v => probe.obj.code = "too_big"

\* a rejecting call above max on an instance whose last failure was below min
C11_Witness ==
    /\ ProbeCalled("InRange")
    /\ IsNum(probe.arg)
    /\ ~probe.ok
    /\ probe.arg.v > probe.obj.b.v
    /\ probe.prev.code = "too_small"
    /\ probe.obj.code = "too_big"

\* C12: the Color field's coercion maps a hex or rgb()/rgba() color to the
\* canonical lowercase #rrggbb[aa] string and malformed or out-of-range
\* input to null: #abc gives #aabbcc and rgb(256,0,0) gives null.
C12_ColorCoercionCanonical ==
    \A f \in FieldIds :
        (Made_(f) /\ fields[f].kind = "Color") =>
            /\ fields[f].value = S(<<"#", "a", "b", "c">>) =>
                 Coerced(fields[f]) =
                     Py(S(<<"#", "a", "a", "b", "b", "c", "c">>))
            /\ fields[f].value =
                   S(<<"r", "g", "b", "(", "2", "5", "6", ",", "0", ",", "0", ")">>)
                 => Coerced(fields[f]) = Py(None)

\* the attribute name a key is rendered as
AttrName(p) == IF p[1] = Classes THEN <<"c", "l", "a", "s", "s">> ELSE Dashed(p[1])

\* the pairs of a mapping in alphabetical order of their attribute names
RECURSIVE ByName(_)
ByName(pairs) ==
    IF pairs = {} THEN <<>>
    ELSE LET p == CHOOSE q \in pairs :
                      \A o \in pairs \ {q} : StrLt(AttrName(q), AttrName(o))
         IN  <<p>> \o ByName(pairs \ {p})

\* the same mapping in every iteration order
Reorderings(kwargs) ==
    { m \in AttrMaps :
        Len(m) = Len(kwargs) /\ \A i \in 1..Len(m) : \E j \in 1..Len(m) : m[i] = kwargs[j] }

\* C13: attribute assembly returns the key="value" attributes in
\* alphabetical order of their rendered names, then the names of the keys
\* whose value is true in alphabetical order, omits the false ones, and
\* returns the same text for every iteration order of the mapping.
C13_AttrsSortedByName ==
    out.op = "attrs" =>
        LET kwargs == out.arg
            pairs == {kwargs[i] : i \in 1..Len(kwargs)}
            sorted == ByName(pairs)
            attrs == SelectSeq(sorted, LAMBDA p : p[2].t # "bool")
            props == SelectSeq(sorted, LAMBDA p : p[2].t = "bool" /\ p[2].v)
            text(p) == IF p[1] = Classes
                       THEN <<"c", "l", "a", "s", "s", "=", "\"", "f", "o",
                              "o", " ", "b", "a", "r", "\"">>
                       ELSE AttrName(p) \o <<"=", "\"">> \o StrOf(p[2])
                            \o <<"\"">>
        IN  /\ exc = "none"
            /\ out.val = Join([i \in 1..Len(attrs) |-> text(attrs[i])]
                              \o [i \in 1..Len(props) |-> AttrName(props[i])],
                              <<" ">>)
            /\ \A m \in Reorderings(kwargs) : get_html_attrs(m).val = out.val

\* C14: a Collection field with separator `, ` and no filter or cleaner,
\* loaded with the string `a, b ,c`, goes through value-level validation
\* with the item list [a, b, c].
C14_CollectionSplitsOnSeparator ==
    \A f \in FieldIds :
        (/\ Made_(f)
         /\ fields[f].kind = "Collection"
         /\ Len(fields[f].filters) = 0 /\ fields[f].clean = ""
         /\ last.op = "load" /\ last.f = f
         /\ last.arg = S(<<"a", ",", " ", "b", " ", ",", "c">>))
        => /\ exc = "none"
           /\ Cleaned(fields[f]) =
                  [exc |-> "none", heap |-> heap,
                   val |-> PyList(<<S(<<"a">>), S(<<"b">>), S(<<"c">>)>>)]

\* s ends with suffix
EndsWith(s, suffix) ==
    Len(s) >= Len(suffix)
    /\ SubSeq(s, Len(s) - Len(suffix) + 1, Len(s)) = suffix

\* the rendered item carries the mark of its widget
Marked(widget, line) ==
    IF widget = "radio"
    THEN EndsWith(line.attrs, <<" ", "c", "h", "e", "c", "k", "e", "d">>)
    ELSE EndsWith(line.attrs, <<" ", "s", "e", "l", "e", "c", "t", "e", "d">>)

\* a Select field has just been rendered by its __call__
SelectRendered ==
    /\ out.op = "call"
    /\ Made_(last.f)
    /\ fields[last.f].kind = "Select"
    /\ exc = "none"

\* the rendering is a radio group up to 5 items and a dropdown above, with
\* one line per item, and exactly the items whose text equals curr marked
RendersMarking(self, curr) ==
    /\ out.val.widget = IF Len(self.items) > 5 THEN "select" ELSE "radio"
    /\ Len(out.val.lines) = Len(self.items)
    /\ \A i \in 1..Len(self.items) :
           /\ out.val.lines[i].label = self.items[i][2]
           /\ Marked(out.val.widget, out.val.lines[i])
                <=> PyEq(PyStr(StrOf(self.items[i][1])), curr)

\* C15 as stated: a Select renders as a radio group with at most 5 items and
\* as a dropdown with more; exactly the items whose value equals the current
\* raw value are marked; without a cleaner the coerced value is the raw value.
C15_SelectMarksRawValue ==
    SelectRendered =>
        LET self == fields[last.f]
        IN  /\ RendersMarking(self, self.value)
            /\ self.clean = "" => Coerced(self) = Py(self.value)

\* C15 amended: the marked items are exactly those whose value, as text,
\* equals what the `value` getter returns: the empty string when hide_value
\* is set, the raw value when it is not empty, and otherwise the text of the
\* stored python_value.
C15_SelectMarksGetterValue ==
    SelectRendered =>
        LET self == fields[last.f]
        IN  /\ RendersMarking(self, get_value(self).val)
            /\ self.clean = "" => Coerced(self) = Py(self.value)

\* items [(a, Alpha), (b, Beta)] with raw value b: a radio group in which
\* Beta is the only checked option
C15_Witness ==
    /\ SelectRendered
    /\ fields[last.f].items = ItemsAB
    /\ fields[last.f].value = S(<<"b">>)
    /\ out.val.widget = "radio"
    /\ ~Marked("radio", out.val.lines[1])
    /\ Marked("radio", out.val.lines[2])

\* t is s without its surrounding whitespace
Trimmed(s, t) ==
    \E i \in 1..(Len(s) + 1) : \E j \in 0..Len(s) :
        /\ t = SubSeq(s, i, j)
        /\ \A k \in 1..Len(s) : (k < i \/ k > j) => IsSpace(s[k])
        /\ Len(t) > 0 => (~IsSpace(t[1]) /\ ~IsSpace(t[Len(t)]))

\* a Text field has just been loaded with a string or with null
TextLoaded(f) ==
    /\ Made_(f)
    /\ fields[f].kind = "Text"
    /\ last.op = "load" /\ last.f = f
    /\ (IsStr(last.arg) \/ IsNone(last.arg))

\* C16: for a Text field, load(value) followed by to_python() yields the
\* input without its surrounding whitespace when that is non-empty, and null
\* when the input is empty, whitespace-only or null.
C16_TextLoadThenToPython ==
    \A f \in FieldIds :
        TextLoaded(f) =>
            /\ exc = "none"
            /\ Coerced(fields[f]).exc = "none"
            /\ IF IsNone(last.arg) \/ Trimmed(last.arg.v, <<>>)
               THEN IsNone(Coerced(fields[f]).val)
               ELSE /\ IsStr(Coerced(fields[f]).val)
                    /\ Trimmed(last.arg.v, Coerced(fields[f]).val.v)

\* the input ` x ` was loaded and coerces to `x`
C16_Witness ==
    \E f \in FieldIds :
        /\ TextLoaded(f)
        /\ last.arg = S(<<" ", "x", " ">>)
        /\ Coerced(fields[f]) = Py(S(<<"x">>))

\* the `value` getter, or the default rendering, of a field whose hide_value
\* is set has just returned
HiddenRead(op) ==
    /\ out.op = op
    /\ Made_(last.f)
    /\ fields[last.f].hide_value

\* a rendering of a hidden field is the rendering of the same field with no
\* raw value loaded
RendersNoRawValue ==
    HiddenRead("call") =>
        /\ exc = "none"
        /\ out.val = call([fields[last.f] EXCEPT !.value = PyStr(<<>>)],
                          out.arg).val

\* C17 as stated: with hide_value set the `value` getter returns the empty
\* string for a single-valued field and the empty list for SelectMulti and
\* Collection, whatever was loaded, and the default rendering of a hidden
\* field does not depend on the loaded raw value.
C17_HiddenValueEmptyListForMulti ==
    /\ HiddenRead("value") =>
           /\ exc = "none"
           /\ out.val = IF MultiValued(fields[last.f].kind)
                        THEN PyList(<<>>) ELSE PyStr(<<>>)
    /\ RendersNoRawValue

\* C17 amended: with hide_value set the `value` getter returns the empty
\* list for SelectMulti and the empty string for every other field,
\* Collection included, whatever was loaded; the default rendering of a
\* hidden field does not depend on the loaded raw value.
C17_HiddenValueEmpty ==
    /\ HiddenRead("value") =>
           /\ exc = "none"
           /\ out.val = IF fields[last.f].kind = "SelectMulti"
                        THEN PyList(<<>>) ELSE PyStr(<<>>)
    /\ RendersNoRawValue

\* a Password field loaded with `b` whose getter returned the empty string
C17_Witness ==
    /\ HiddenRead("value")
    /\ fields[last.f].kind = "Password"
    /\ fields[last.f].value = S(<<"b">>)
    /\ out.val = PyStr(<<>>)

\* a pure date promoted to midnight of its day, a datetime as it is
Midnight(x) == IF x.t = "date" THEN <<x.v, 0>> ELSE x.v

\* C18: Before(bound) accepts a value iff value <= bound and After(bound)
\* iff value >= bound, a pure date on either side being promoted to
\* midnight; both reject an input that is not a date by returning false, and
\* neither the construction nor the call raises for a pure date.
C18_BeforeAfterInclusive ==
    (/\ probe.made
     /\ probe.new[1] \in {"Before", "After"}
     /\ IsDateInstance(probe.new[2]))
    => /\ probe.exc = "none"
       /\ probe.called =>
            probe.ok <=>
              /\ IsDateInstance(probe.arg)
              /\ IF probe.new[1] = "Before"
                 THEN DateTimeLe(Midnight(probe.arg), Midnight(probe.new[2]))
                 ELSE DateTimeLe(Midnight(probe.new[2]), Midnight(probe.arg))

NegativeNumeral(f) ==
    /\ IsStr(fields[f].value)
    /\ ParseInt(fields[f].value.v).ok
    /\ ParseInt(fields[f].value.v).n < 0

FalsyValues ==
    { <<>>, <<"0">>, <<"n", "o">>, <<"o", "f", "f">>,
      <<"f", "a", "l", "s", "e">> }

\* C20: for a Boolean field, value-level validate after a load coerces the
\* raw value to false iff it is empty or one of the falsy tokens and to true
\* otherwise, whatever the field's original value, and does not raise.
C20_BooleanCoercion ==
    \A f \in FieldIds :
        (/\ AfterValidate /\ last.f = f
         /\ fields[f].kind = "Boolean"
         /\ IsStr(fields[f].value))
        => /\ exc = "none"
           /\ Cleaned(fields[f]).val = PyBool(fields[f].value.v \notin FalsyValues)

\* the value-level phase ended without raising and without a ValidationError
\* out of the coercion
ValidatedValue ==
    /\ AfterValidate
    /\ exc = "none"
    /\ Coerced(fields[last.f]).exc = "none"
    /\ Cleaned(fields[last.f]).exc = "none"
    /\ ~IsValidationError(Cleaned(fields[last.f]).val)

\* C21: after a value-level validate() that does not end in a coercion
\* ValidationError, has_changed is true iff the coerced form of the current
\* raw value differs from the field's original value; in particular a field
\* initialized with a non-null original value and then loaded with empty
\* input has has_changed = true.
C21_HasChangedIffCoercionDiffers ==
    ValidatedValue =>
        LET self == fields[last.f]
        IN  /\ self.has_changed
                  <=> ~PyEq(Coerced(self).val, self.original_value)
            /\ (~IsNone(self.original_value) /\ self.value = S(<<>>))
                  => self.has_changed

\* value-level validate() returned and the coercion of the raw value is falsy
FalsyCoercion ==
    /\ AfterValidate
    /\ Coerced(fields[last.f]).exc = "none"
    /\ ~Truthy(Coerced(fields[last.f]).val)

\* validate() went on with the value pv: has_changed compares it with the
\* original value, every validator called was called with it, and it is what
\* the call returns unless the field is left with an error
WentOnWith(self, pv) ==
    /\ self.has_changed <=> ~PyEq(pv, self.original_value)
    /\ \A i \in 1..Len(calls) : calls[i].arg = pv
    /\ (exc = "none" /\ IsNone(self.error)) =>
           out.val = IF IsNone(pv) /\ self.optional THEN None ELSE pv

\* a numeric field with no original value holds the raw value `0`
ZeroLoaded(self) ==
    /\ self.kind \in {"Number", "NaturalNumber"}
    /\ self.value = S(<<"0">>)
    /\ IsNone(self.original_value)

\* the field is validated as null: an optional field skips its validators, a
\* required one has them called with null, and null is returned
ValidatedAsNull(self) ==
    /\ self.optional => (calls = <<>> /\ IsNone(self.error))
    /\ \A i \in 1..Len(calls) : IsNone(calls[i].arg)
    /\ IsNone(out.val)

\* C22 as stated: in value-level validate(), whenever the coercion of the raw
\* value is falsy, the value that is cleaned, compared for has_changed,
\* validated and returned is the field's stored python_value, the original
\* value given at initialization, instead of the coerced value; so with no
\* original value a numeric field loaded with `0` is validated as null.
C22_FalsyCoercionUsesStoredValue ==
    FalsyCoercion =>
        LET self == fields[last.f]
        IN  /\ self.python_value = self.original_value
            /\ WentOnWith(self, self.python_value)
            /\ ZeroLoaded(self) => ValidatedAsNull(self)

\* clean_value of the stored python_value
StoredCleaned(self) == clean_value(self, self.python_value, heap, TheNow)

\* C22 amended: in value-level validate(), whenever the coercion of the raw
\* value is falsy, the value handed to clean_value is the field's stored
\* python_value, the original value given at initialization, instead of the
\* coerced value, and the result of clean_value is what is compared for
\* has_changed, validated and, when the field is left without an error,
\* returned; that result is the stored python_value itself on every variant
\* but Collection; so with no original value a numeric field loaded with `0`
\* is validated as null.
C22_FalsyCoercionUsesCleanedStoredValue ==
    (FalsyCoercion /\ StoredCleaned(fields[last.f]).exc = "none") =>
        LET self == fields[last.f]
        IN  /\ self.python_value = self.original_value
            /\ WentOnWith(self, StoredCleaned(self).val)
            /\ self.kind # "Collection" =>
                   StoredCleaned(self).val = self.python_value
            /\ ZeroLoaded(self) => ValidatedAsNull(self)

\* a Number field declared with Required and no original value was loaded
\* with `0` and is left with the error `required`
C22_Witness ==
    /\ FalsyCoercion
    /\ ZeroLoaded(fields[last.f])
    /\ fields[last.f].kind = "Number"
    /\ Coerced(fields[last.f]).val = PyFloat(0)
    /\ Len(calls) = 1
    /\ IsNone(calls[1].arg)
    /\ IsValidationError(fields[last.f].error)
    /\ fields[last.f].error.code = "required"

\* the step is a validate() in one of its phases
ValidateStep == last'.op \in {"validate", "validate_form"}
FormStep == last'.op = "validate_form"

\* the last validator the step called is form-level and rejected the data
LastFormCallFailed ==
    /\ Len(calls') > 0
    /\ IsFormValidator(heap'[calls'[Len(calls')].ref])
    /\ ~VCall(heap'[calls'[Len(calls')].ref], calls'[Len(calls')].arg,
              TheNow).ok

\* C23: validate() in either phase leaves the field's raw value,
\* python_value and original_value unchanged; the form-level phase changes
\* nothing of a field but `error`, and changes `error` only when a form-level
\* validator fails, so an error recorded by the value-level phase is still
\* present after a form-level phase in which every form-level validator
\* passes.
C23_ValidateFrame ==
    [][\A f \in FieldIds :
          Made_(f) =>
            /\ ValidateStep =>
                  /\ fields'[f].value = fields[f].value
                  /\ fields'[f].python_value = fields[f].python_value
                  /\ fields'[f].original_value = fields[f].original_value
            /\ FormStep =>
                  /\ fields'[f] = [fields[f] EXCEPT !.error = fields'[f].error]
                  /\ fields'[f].error # fields[f].error =>
                        /\ f = last'.f
                        /\ exc' = "none"
                        /\ LastFormCallFailed
                        /\ fields'[f].error =
                             ValidationError(
                                 heap'[calls'[Len(calls')].ref].code,
                                 heap'[calls'[Len(calls')].ref].message)
      ]_vars

\* the error `required` of the value-level phase is still there after a
\* form-level phase that called two form-level validators and both passed
C23_Witness ==
    /\ last.op = "validate_form"
    /\ Made_(last.f)
    /\ exc = "none"
    /\ Len(calls) = 2
    /\ \A i \in 1..Len(calls) :
          /\ IsFormValidator(heap[calls[i].ref])
          /\ VCall(heap[calls[i].ref], calls[i].arg, TheNow).ok
    /\ IsValidationError(fields[last.f].error)
    /\ fields[last.f].error.code = "required"

=============================================================================
